---- MODULE Spec2Model ----
(***************************************************************************)
(* A model of the quick picks, the spec parser and the changelist search   *)
(* tree of vscode-perforce.  Every asynchronous function is cut at its     *)
(* awaits: the code between two awaits runs to completion on the single    *)
(* JavaScript thread and is one action.  The p4 command line and the user  *)
(* are the environment: what they answer is chosen with \E.                *)
(***************************************************************************)
EXTENDS Integers, Sequences, FiniteSets, TLC

VARIABLES
    \* ---- unshelveAndRefresh (ChangeQuickPick.ts) ----
    upc,         \* where the unshelve action stands
    uoptions,    \* the p4.UnshelveOptions passed to unshelveAndRefresh
    uresult,     \* outcome of p4 unshelve: "none", "ok", "failed" (rejected
                 \* with an Error) or "rejected" (with another value)
    uwarnings,   \* output.warnings.length of the unshelve output
    ubuttons,    \* the buttons of the warning prompt that was shown
    uresolved,   \* the chnum arguments p4.resolve was called with
    ulog,        \* the user-visible effects, in the order they happened
    \* ---- changeQuickPickProvider (ChangeQuickPick.ts) ----
    cpc,         \* where provideActions stands
    cchnum,      \* the chnum argument of provideActions
    cchange,     \* changes[0] of the first describe call
    cshelved,    \* shelvedChanges[0], or Undefined
    cdescribes,  \* the p4.describe calls issued by the latest provideActions
    cpick,       \* the ActionableQuickPick that was returned
    cerrors,     \* the errors shown to the user
    \* ---- getChangeDetails and the file quick picks (FileQuickPick.ts) ----
    fpc,         \* where the quick pick provider stands
    fkind,       \* the quick pick: "file", "filerev" or "filediff"
    fvia,        \* the command that opened it
    furiRev,     \* PerforceUri.getRevOrAtLabel(uri), or Undefined
    fcached,     \* the CachedOutput argument of getChangeDetails
    fhaveFile,   \* haveFile of getChangeDetails, an optional
    fuseRev,     \* useRev of getChangeDetails
    fqueries,    \* the p4 queries the latest getChangeDetails issued
    fdetails,    \* the ChangeDetails returned, an optional
    ferrors,     \* the errors the latest request showed
    fserver,     \* the depot: head revision of the file and have revision
    \* ---- "Unshelve via branch mapping..." (ChangeQuickPick.ts) ----
    bpc,         \* where performAction stands
    binput,      \* what showInputBox returned, an optional string
    bfilter,     \* nameFilter of the p4.branches call, an optional string
    bbranches,   \* the branch names p4.branches answered
    bopened,     \* branchMapping showUnshelveQuickPick was opened with
    breopened,   \* whether reopen() was called
    berrors,     \* the errors shown
    \* ---- parseSpecOutput (SpecParser.ts) ----
    pvalue,      \* the spec text parseSpecOutput is called with
    pfields,     \* the RawField[] it returned, an optional
    \* ---- search result tree (ChangelistTreeView.ts) and the depot ----
    sdepot,      \* the changelists of the server, by number
    sversion,    \* how often the server's changelists have changed
    tpc,         \* "none" before the tree is constructed, then "built"
    tresults,    \* SearchResultTree._results
    tchildren,   \* the SearchResultItems of the tree, with their children
    tcalls,      \* the p4 calls of the tree that are in flight
    tgen,        \* how often the children were rebuilt (constructor, refresh)
    trefreshes,  \* how often refresh() was called
    tversion,    \* sversion when the search of _results was served
    terrors,     \* the rejections nothing handles
    tfailed,     \* whether a describe call of the tree has failed
    traw,        \* the results the tree was last built from, as answered
    \* ---- one file of a search result (ChangelistTreeView.ts) ----
    rinput,      \* what the tree item of the file is constructed from
    rnode,       \* the tree item constructed, an optional
    \* ---- "Sync this revision" of the file quick pick ----
    ypc,         \* "idle", or "syncing" while p4.sync is awaited
    ysynced,     \* the `files` of every p4.sync call issued
    ylog,        \* what happened: "sync", "resolved", "rejected", "message"
    \* ---- AllResultsTree (ChangelistTreeView.ts) ----
    achildren,   \* the result trees under "Results", in the order added
    anext,       \* the number of result trees constructed so far
    aremoved,    \* the trees the latest removeUnpinned disposed
    \* ---- ChangelistTreeRoot and RunSearch (ChangelistTreeView.ts) ----
    aauto,       \* RunSearch._autoRefresh
    alabel,      \* the label of the 'Search Now' item
    acontext,    \* the contextValue of the 'Search Now' item
    afilters,    \* _filterRoot.currentFilters
    aclient,     \* _chooseProvider.selectedClient, an optional
    asearches,   \* the searches awaited by executeSearch
    astarted,    \* the number of searches started so far
    alast,       \* the filters of the search started last, an optional
    aerrors,     \* the errors shown and the rejections nothing handles
    \* ---- the diff revision chooser (FileQuickPick.ts) ----
    dchanges,    \* the ChangeDetails the chooser is built from
    dnewer,      \* includeNewerRevisions
    ddiff        \* the DiffProvider.diffFiles call of the pick, an optional

uvars == <<upc, uoptions, uresult, uwarnings, ubuttons, uresolved, ulog>>

cvars == <<cpc, cchnum, cchange, cshelved, cdescribes, cpick, cerrors>>

fvars == <<fpc, fkind, fvia, furiRev, fcached, fhaveFile, fuseRev, fqueries,
           fdetails, ferrors, fserver>>

bvars == <<bpc, binput, bfilter, bbranches, bopened, breopened, berrors>>

pvars == <<pvalue, pfields>>

tvars == <<sdepot, sversion, tpc, tresults, tchildren, tcalls, tgen,
           trefreshes, tversion, terrors, tfailed, traw>>

rvars == <<rinput, rnode>>

yvars == <<ypc, ysynced, ylog>>

avars == <<achildren, anext, aremoved, aauto, alabel, acontext, afilters,
           aclient, asearches, astarted, alast, aerrors>>

dvars == <<dchanges, dnewer, ddiff>>

vars == <<uvars, cvars, fvars, bvars, pvars, tvars, rvars, yvars, avars,
          dvars>>

notU == <<cvars, fvars, bvars, pvars, tvars, rvars, yvars, avars, dvars>>
notC == <<uvars, fvars, bvars, pvars, tvars, rvars, yvars, avars, dvars>>
notF == <<uvars, cvars, bvars, pvars, tvars, rvars, yvars, avars, dvars>>
notB == <<uvars, cvars, fvars, pvars, tvars, rvars, yvars, avars, dvars>>
notP == <<uvars, cvars, fvars, bvars, tvars, rvars, yvars, avars, dvars>>
notT == <<uvars, cvars, fvars, bvars, pvars, rvars, yvars, avars, dvars>>
notR == <<uvars, cvars, fvars, bvars, pvars, tvars, yvars, avars, dvars>>
notFY == <<uvars, cvars, bvars, pvars, tvars, rvars, avars, dvars>>
notA == <<uvars, cvars, fvars, bvars, pvars, tvars, rvars, yvars, dvars>>
notD == <<uvars, cvars, fvars, bvars, pvars, tvars, rvars, yvars, avars>>

\* The value of an absent optional (undefined).
Undefined == "undefined"

\* The changelist numbers the environment answers with.
Chnums == {"1", "2"}

\* Largest number of warnings in the output of p4 unshelve.
MaxWarnings == 2

\* How many unshelve actions are performed in a run.
MaxUnshelves == 2

(***************************************************************************)
(* unshelveAndRefresh and the actions of the unshelve quick pick           *)
(***************************************************************************)

InitUnshelve ==
    /\ upc = "idle"
    /\ uoptions = [shelvedChnum |-> Undefined, toChnum |-> Undefined]
    /\ uresult = "none"
    /\ uwarnings = 0
    /\ ubuttons = <<>>
    /\ uresolved = <<>>
    /\ ulog = <<>>

\* The number of unshelveAndRefresh calls made so far.
Unshelves == Len(SelectSeq(ulog, LAMBDA e : e = "unshelve"))

\* The start of unshelveAndRefresh: p4.unshelve is called and awaited.
CallUnshelveAndRefresh(options) ==
    /\ Unshelves < MaxUnshelves
    /\ upc' = "unshelving"
    /\ uoptions' = options
    /\ uresult' = "none"
    /\ uwarnings' = 0
    /\ ubuttons' = <<>>
    /\ ulog' = Append(ulog, "unshelve")
    /\ UNCHANGED uresolved
    /\ UNCHANGED notU

\* performAction of "Default changelist": no toChnum.
DefaultChangelistAction ==
    /\ upc = "idle"
    /\ \E chnum \in Chnums :
        CallUnshelveAndRefresh([shelvedChnum |-> chnum, toChnum |-> Undefined])

\* performAction of a pending changelist of the user: toChnum is c.chnum.
ChangelistAction ==
    /\ upc = "idle"
    /\ \E chnum \in Chnums, c \in Chnums :
        CallUnshelveAndRefresh([shelvedChnum |-> chnum, toChnum |-> c])

\* performAction of "New changelist": the change spec is fetched and a new
\* changelist is created before anything is unshelved.
NewChangelistAction ==
    /\ upc = "idle"
    /\ Unshelves < MaxUnshelves
    /\ \E chnum \in Chnums :
        uoptions' = [shelvedChnum |-> chnum, toChnum |-> Undefined]
    /\ upc' = "creating"
    /\ UNCHANGED <<uresult, uwarnings, ubuttons, uresolved, ulog>>
    /\ UNCHANGED notU

\* p4.inputChangeSpec answered: unshelve into the new changelist.
NewChangelistCreated ==
    /\ upc = "creating"
    /\ \E c \in Chnums :
        CallUnshelveAndRefresh([shelvedChnum |-> uoptions.shelvedChnum,
                                toChnum |-> c])

\* getChangeSpec or inputChangeSpec rejected: performAction rejects and
\* unshelveAndRefresh is never called.
NewChangelistFailed ==
    /\ upc = "creating"
    /\ upc' = "idle"
    /\ UNCHANGED <<uoptions, uresult, uwarnings, ubuttons, uresolved, ulog>>
    /\ UNCHANGED notU

\* options.toChnum ? "Resolve changelist" : undefined, then filter(isTruthy).
ResolveButtons(options) ==
    IF options.toChnum # Undefined THEN <<"Resolve changelist">> ELSE <<>>

\* output.warnings.length > 0
NeedsResolveBad(warnings) == warnings >= 0
NeedsResolve(warnings) == warnings > 0

\* What the user sees between the return of p4.unshelve and the next await.
AfterUnshelvedBad(warnings) ==
    <<"message">>
    \o (IF NeedsResolve(warnings) THEN <<"prompt">> ELSE <<>>)
    \o <<"refresh">>
AfterUnshelved(warnings) ==
    <<"message", "refresh">>
    \o (IF NeedsResolve(warnings) THEN <<"prompt">> ELSE <<>>)

\* p4.unshelve resolved with an output carrying `warnings` warnings.
UnshelveSucceeds ==
    /\ upc = "unshelving"
    /\ \E warnings \in 0..MaxWarnings :
        /\ uresult' = "ok"
        /\ uwarnings' = warnings
        /\ ulog' = ulog \o AfterUnshelved(warnings)
        /\ IF NeedsResolve(warnings)
           THEN /\ ubuttons' = ResolveButtons(uoptions)
                /\ upc' = "prompting"
           ELSE /\ ubuttons' = <<>>
                /\ upc' = "idle"
    /\ UNCHANGED <<uoptions, uresolved>>
    /\ UNCHANGED notU

\* The catch block: the error is shown when it is an Error, and the SCM
\* view is refreshed.
CaughtBad(isError) ==
    IF isError THEN <<"error">> ELSE <<>>
Caught(isError) ==
    (IF isError THEN <<"error">> ELSE <<>>) \o <<"refresh">>

\* p4.unshelve rejected.
UnshelveFails ==
    /\ upc = "unshelving"
    /\ \E isError \in BOOLEAN :
        /\ ulog' = ulog \o Caught(isError)
        /\ uresult' = IF isError THEN "failed" ELSE "rejected"
    /\ upc' = "idle"
    /\ UNCHANGED <<uoptions, uwarnings, ubuttons, uresolved>>
    /\ UNCHANGED notU

\* const resolveButton = options.toChnum ? "Resolve changelist" : undefined
resolveButton(options) ==
    IF options.toChnum # Undefined THEN "Resolve changelist" ELSE Undefined

\* if (chosen && chosen === resolveButton)
resolveChosenBad(chosen, options) == chosen = resolveButton(options)
resolveChosen(chosen, options) ==
    chosen # Undefined /\ chosen = resolveButton(options)

\* The user answered the warning: a button, or undefined when dismissed.
WarningAnswered ==
    /\ upc = "prompting"
    /\ \E chosen \in {Undefined} \cup {ubuttons[i] : i \in 1..Len(ubuttons)} :
        IF resolveChosen(chosen, uoptions)
        THEN /\ uresolved' = Append(uresolved, uoptions.toChnum)
             /\ ulog' = Append(ulog, "resolve")
             /\ upc' = "resolving"
        ELSE /\ upc' = "idle"
             /\ UNCHANGED <<uresolved, ulog>>
    /\ UNCHANGED <<uoptions, uresult, uwarnings, ubuttons>>
    /\ UNCHANGED notU

\* p4.resolve resolved.
ResolveSucceeds ==
    /\ upc = "resolving"
    /\ upc' = "idle"
    /\ UNCHANGED <<uoptions, uresult, uwarnings, ubuttons, uresolved, ulog>>
    /\ UNCHANGED notU

\* p4.resolve rejected: the same catch block.
ResolveFails ==
    /\ upc = "resolving"
    /\ \E isError \in BOOLEAN : ulog' = ulog \o Caught(isError)
    /\ upc' = "idle"
    /\ UNCHANGED <<uoptions, uresult, uwarnings, ubuttons, uresolved>>
    /\ UNCHANGED notU

NextUnshelve ==
    \/ DefaultChangelistAction
    \/ ChangelistAction
    \/ NewChangelistAction
    \/ NewChangelistCreated
    \/ NewChangelistFailed
    \/ UnshelveSucceeds
    \/ UnshelveFails
    \/ WarningAnswered
    \/ ResolveSucceeds
    \/ ResolveFails

(***************************************************************************)
(* changeQuickPickProvider.provideActions                                  *)
(***************************************************************************)

\* Longest list of files, of shelved files and of jobs in a described change.
MaxFiles == 2

SeqsUpTo(S, n) == UNION {[1..k -> S] : k \in 0..n}

Users == {"ann"}

Jobs == {"job1", "job2"}

\* p4.DepotFileOperation
DepotFiles ==
    [depotPath : {"//depot/a"}, revision : {"1"}, operation : {"edit", "add"}]

\* p4.DescribedChangelist
DescribedChangelists ==
    [chnum : Chnums, isPending : BOOLEAN, user : Users,
     fixedJobs : SeqsUpTo(Jobs, MaxFiles),
     affectedFiles : SeqsUpTo(DepotFiles, MaxFiles),
     shelvedFiles : SeqsUpTo(DepotFiles, MaxFiles)]

\* What configAccessor.getSwarmLink answers: nothing, a link that parses, or
\* a link without a protocol, which vscode.Uri.parse(.., true) rejects.
SwarmLinks == {Undefined, "https://swarm/changes/1", "swarm/changes/1"}

Item(label, text, action) == [label |-> label, text |-> text, action |-> action]

InitChange ==
    /\ cpc = "idle"
    /\ cchnum = Undefined
    /\ cchange = <<>>
    /\ cshelved = <<>>
    /\ cdescribes = <<>>
    /\ cpick = <<>>
    /\ cerrors = <<>>

makeFocusPick(change) ==
    <<Item("$(multiple-windows) Focus in changelist search view", <<>>, TRUE)>>

makeSwarmPick(swarmAddr) ==
    IF swarmAddr = "https://swarm/changes/1"
    THEN <<Item("$(eye) Open in review tool", <<swarmAddr>>, TRUE)>>
    ELSE <<>>

\* The error makeSwarmPick shows when the link does not parse.
swarmErrors(swarmAddr) ==
    IF swarmAddr = "swarm/changes/1"
    THEN <<"Could not parse swarm link">>
    ELSE <<>>

makeClipboardPicks(change) ==
    <<Item("Copy change number", <<change.chnum>>, TRUE),
      Item("Copy user", <<change.user>>, TRUE),
      Item("Copy change description", <<>>, TRUE)>>

makeEditPicks(change) ==
    <<Item("$(edit) Edit changelist", <<>>, TRUE)>>

makeFilePicks(change) ==
    <<Item("Changed files: ", <<Len(change.affectedFiles)>>, FALSE)>>
    \o [i \in 1..Len(change.affectedFiles) |->
            Item("file", <<change.affectedFiles[i]>>, TRUE)]

\* `shelved` is the array shelvedChanges: change is shelvedChanges[0], which
\* is undefined when the array is empty.
makeUnshelvePicks(shelved) ==
    IF shelved = <<>> \/ Len(shelved[1].shelvedFiles) < 1
    THEN <<>>
    ELSE <<Item("$(cloud-download) Unshelve changelist...",
                <<shelved[1].chnum>>, TRUE),
           Item("$(cloud-download) Unshelve via branch mapping...",
                <<shelved[1].chnum>>, TRUE)>>

makeShelvedFilePicksBad(shelved) ==
    IF shelved = <<>>
    THEN <<>>
    ELSE <<Item("Shelved files: ", <<Len(shelved[1].shelvedFiles)>>, FALSE)>>
         \o [i \in 1..Len(shelved[1].shelvedFiles) |->
                 Item("shelved file", <<shelved[1].shelvedFiles[i]>>, TRUE)]
makeShelvedFilePicks(shelved) ==
    IF shelved = <<>> \/ Len(shelved[1].shelvedFiles) < 1
    THEN <<>>
    ELSE <<Item("Shelved files: ", <<Len(shelved[1].shelvedFiles)>>, FALSE)>>
         \o [i \in 1..Len(shelved[1].shelvedFiles) |->
                 Item("shelved file", <<shelved[1].shelvedFiles[i]>>, TRUE)]

makeJobPicksBad(change) ==
    <<Item("Jobs fixed: ", <<Len(change.fixedJobs)>>, FALSE)>>
    \o [i \in 1..(Len(change.fixedJobs) - 1) |->
            Item("$(tools) ", <<change.fixedJobs[i + 1]>>, TRUE)]
makeJobPicks(change) ==
    <<Item("Jobs fixed: ", <<Len(change.fixedJobs)>>, FALSE)>>
    \o [i \in 1..Len(change.fixedJobs) |->
            Item("$(tools) ", <<change.fixedJobs[i]>>, TRUE)]

\* (change.isPending ? "Pending" : "Submitted")
statusWordBad(change) == IF change.isPending THEN "Submitted" ELSE "Pending"
statusWord(change) == IF change.isPending THEN "Pending" ELSE "Submitted"

\* The placeHolder, as the list of the strings that are concatenated.
placeHolder(chnum, change) ==
    <<statusWord(change), " change ", chnum, " by ", change.user,
      " on ", "<date>", " : ", "<description>">>

\* Lines 47-71: the pick built from change and shelvedChanges.
actionableQuickPick(chnum, change, shelved, swarmAddr) ==
    [items |-> makeFocusPick(change)
               \o makeSwarmPick(swarmAddr)
               \o makeClipboardPicks(change)
               \o makeEditPicks(change)
               \o makeUnshelvePicks(shelved)
               \o makeJobPicks(change)
               \o makeFilePicks(change)
               \o makeShelvedFilePicks(shelved),
     placeHolder |-> placeHolder(chnum, change)]

\* Lines 47-71, reached with shelvedChanges known: provideActions returns.
ReturnPick(change, shelved) ==
    \E swarmAddr \in SwarmLinks :
        /\ cshelved' = shelved
        /\ cpick' = <<actionableQuickPick(cchnum, change, shelved, swarmAddr)>>
        /\ cerrors' = cerrors \o swarmErrors(swarmAddr)
        /\ cpc' = "shown"

\* provideActions is called: the change is described.
ProvideActions ==
    /\ cpc \in {"idle", "shown", "failed"}
    /\ \E chnum \in Chnums : cchnum' = chnum
    /\ cdescribes' = <<[shelved |-> FALSE, chnums |-> <<cchnum'>>]>>
    /\ cpc' = "describing"
    /\ cchange' = <<>>
    /\ cshelved' = <<>>
    /\ cpick' = <<>>
    /\ cerrors' = <<>>
    /\ UNCHANGED notC

\* shelvedChanges = change.isPending ? await p4.describe(.. shelved ..) : []
shelvedWanted(change) == change.isPending

\* Lines 32-35: Display.showImportantError("Unable to find change details")
changeNotFoundBad(errors) == errors
changeNotFound(errors) == Append(errors, "Unable to find change details")

\* The first describe call answered with `changes`.
DescribeReturns ==
    /\ cpc = "describing"
    /\ \E changes \in SeqsUpTo({d \in DescribedChangelists :
                                   /\ d.chnum = cchnum
                                   /\ d.shelvedFiles = <<>>}, 1) :
        /\ cchange' = changes
        /\ IF Len(changes) < 1
           THEN /\ cerrors' = changeNotFound(cerrors)
                /\ cpc' = "failed"
                /\ UNCHANGED <<cchnum, cshelved, cdescribes, cpick>>
           ELSE IF shelvedWanted(changes[1])
                THEN /\ cdescribes' =
                          Append(cdescribes,
                                 [shelved |-> TRUE, chnums |-> <<cchnum>>])
                     /\ cpc' = "describingShelved"
                     /\ UNCHANGED <<cchnum, cshelved, cpick, cerrors>>
                ELSE /\ ReturnPick(changes[1], <<>>)
                     /\ UNCHANGED <<cchnum, cdescribes>>
    /\ UNCHANGED notC

\* The shelved describe call answered with `shelvedChanges`.
ShelvedDescribeReturns ==
    /\ cpc = "describingShelved"
    /\ \E shelvedChanges \in SeqsUpTo({d \in DescribedChangelists :
                                          /\ d.chnum = cchnum
                                          /\ d.isPending
                                          /\ d.fixedJobs = <<>>
                                          /\ d.affectedFiles = <<>>}, 1) :
        ReturnPick(cchange[1], shelvedChanges)
    /\ UNCHANGED <<cchnum, cchange, cdescribes>>
    /\ UNCHANGED notC

\* Either describe call rejected: provideActions rejects.
DescribeFails ==
    /\ cpc \in {"describing", "describingShelved"}
    /\ cpc' = "failed"
    /\ UNCHANGED <<cchnum, cchange, cshelved, cdescribes, cpick, cerrors>>
    /\ UNCHANGED notC

NextChange ==
    \/ ProvideActions
    \/ DescribeReturns
    \/ ShelvedDescribeReturns
    \/ DescribeFails

(***************************************************************************)
(* getChangeDetails and the quick picks built on it                        *)
(***************************************************************************)

\* Most revisions the file gets in the depot.
MaxRevs == 3

\* What PerforceUri.getRevOrAtLabel(uri) can be: nothing, a label, or a
\* revision number, which need not be a revision the file has.
UriRevs == {Undefined, "@label"} \cup {ToString(r) : r \in 1..(MaxRevs + 1)}

\* isNaN(parseInt(rev)): parseInt reads the leading digits, and the revisions
\* of the model are the numbers up to MaxRevs + 1 (ToString is of TLC).
parseIntIsNaN(rev) == rev \notin {ToString(n) : n \in 0..(MaxRevs + 1)}

\* p4.FileLogItem of revision r.
FileLogItem(r) ==
    [file |-> "//depot/a", revision |-> ToString(r), chnum |-> ToString(r)]

\* What p4.getFileHistory answers when the head revision is `head`: the
\* revisions, newest first.
FileHistory(head) == [i \in 1..head |-> FileLogItem(head - i + 1)]

\* What p4.have answers: undefined when the file is not synced.
HaveFile(have) ==
    IF have = 0 THEN <<>> ELSE <<[revision |-> ToString(have)]>>

\* No CachedOutput argument; an absent field of one is the empty optional.
NoCache == [filelog |-> <<>>, haveFile |-> <<>>]

makeCache(details) ==
    [filelog |-> <<details.all>>, haveFile |-> details.haveFile]

InitFile ==
    /\ fpc = "idle"
    /\ fkind = "file"
    /\ fvia = "none"
    /\ furiRev = Undefined
    /\ fcached = NoCache
    /\ fhaveFile = <<>>
    /\ fuseRev = Undefined
    /\ fqueries = <<>>
    /\ fdetails = <<>>
    /\ ferrors = <<>>
    /\ fserver = [head |-> 0, have |-> 0]

\* filelog.findIndex((c) => c.revision === useRev), from 0, -1 when absent.
findIndex(filelog, useRev) ==
    LET hits == {i \in 1..Len(filelog) : filelog[i].revision = useRev}
    IN IF hits = {} THEN -1
       ELSE (CHOOSE i \in hits : \A j \in hits : i <= j) - 1

\* filelog[i] of JavaScript: undefined outside the array.
At(filelog, i) ==
    IF i \in 0..(Len(filelog) - 1) THEN <<filelog[i + 1]>> ELSE <<>>

\* currentIndex of getChangeDetails.
currentIndexOf(filelog, useRev) == findIndex(filelog, useRev)

\* Lines 197-203.
changeDetails(filelog, useRev, haveFile) ==
    LET currentIndex == currentIndexOf(filelog, useRev)
    IN [all |-> filelog,
        current |-> At(filelog, currentIndex),
        currentIndex |-> currentIndex,
        next |-> At(filelog, currentIndex - 1),
        prev |-> At(filelog, currentIndex + 1),
        latest |-> At(filelog, 0),
        haveFile |-> haveFile]

\* Lines 192-203: the file log is known.
AfterFileLog(filelog, useRev, haveFile, errors) ==
    IF Len(filelog) = 0
    THEN /\ ferrors' = Append(errors, "No file history found")
         /\ fpc' = "failed"
         /\ fdetails' = <<>>
    ELSE /\ fdetails' = <<changeDetails(filelog, useRev, haveFile)>>
         /\ fpc' = "returned"
         /\ ferrors' = errors

\* cached?.haveFile ?? (await p4.have(..))
usesCachedHaveBad(cached) == FALSE
usesCachedHave(cached) == cached.haveFile # <<>>

\* cached?.filelog ?? (await p4.getFileHistory(..))
usesCachedFileLog(cached) == cached.filelog # <<>>

\* const useRev = !uriRev || isNaN(parseInt(uriRev)) ? haveFile?.revision : uriRev
useRevOfBad(uriRev, haveFile) ==
    IF haveFile = <<>> THEN Undefined ELSE haveFile[1].revision
useRevOf(uriRev, haveFile) ==
    IF uriRev = Undefined \/ parseIntIsNaN(uriRev)
    THEN IF haveFile = <<>> THEN Undefined ELSE haveFile[1].revision
    ELSE uriRev

\* Lines 179-190: haveFile is known.
AfterHave(uriRev, cached, haveFile, queries, errors) ==
    LET useRev == useRevOf(uriRev, haveFile)
    IN /\ fhaveFile' = haveFile
       /\ fuseRev' = useRev
       /\ IF useRev = Undefined
          THEN /\ ferrors' =
                    Append(errors,
                           "Unable to get file details without a revision")
               /\ fpc' = "failed"
               /\ fdetails' = <<>>
               /\ fqueries' = queries
          ELSE IF usesCachedFileLog(cached)
               THEN /\ AfterFileLog(cached.filelog[1], useRev, haveFile, errors)
                    /\ fqueries' = queries
               ELSE /\ fqueries' = Append(queries, "filelog")
                    /\ fpc' = "filelog"
                    /\ fdetails' = <<>>
                    /\ ferrors' = errors

\* A quick pick provider calls getChangeDetails(uri, cached).
getChangeDetails(kind, via, uriRev, cached) ==
    /\ fkind' = kind
    /\ fvia' = via
    /\ furiRev' = uriRev
    /\ fcached' = cached
    /\ IF usesCachedHave(cached)
       THEN AfterHave(uriRev, cached, cached.haveFile, <<>>, <<>>)
       ELSE /\ fqueries' = <<"have">>
            /\ fpc' = "have"
            /\ fhaveFile' = <<>>
            /\ fuseRev' = Undefined
            /\ fdetails' = <<>>
            /\ ferrors' = <<>>
    /\ UNCHANGED fserver
    /\ UNCHANGED notF

\* showQuickPickForFile(uri) from outside the quick picks: no cache.
ShowQuickPickForFile ==
    /\ fpc \in {"idle", "shown", "failed"}
    /\ \E uriRev \in UriRevs : getChangeDetails("file", "open", uriRev, NoCache)

\* p4.have answered.
HaveReturns ==
    /\ fpc = "have"
    /\ AfterHave(furiRev, fcached, HaveFile(fserver.have), fqueries, ferrors)
    /\ UNCHANGED <<fkind, fvia, furiRev, fcached, fserver>>
    /\ UNCHANGED notF

\* p4.getFileHistory answered.
FileLogReturns ==
    /\ fpc = "filelog"
    /\ AfterFileLog(FileHistory(fserver.head), fuseRev, fhaveFile, ferrors)
    /\ UNCHANGED <<fkind, fvia, furiRev, fcached, fhaveFile, fuseRev, fqueries,
                   fserver>>
    /\ UNCHANGED notF

\* p4.have or p4.getFileHistory rejected: getChangeDetails rejects.
QueryFails ==
    /\ fpc \in {"have", "filelog"}
    /\ fpc' = "failed"
    /\ UNCHANGED <<fkind, fvia, furiRev, fcached, fhaveFile, fuseRev, fqueries,
                   fdetails, ferrors, fserver>>
    /\ UNCHANGED notF

\* The provider builds its items from the ChangeDetails: every provider
\* reads a field of changes.current, which throws when current is undefined.
ProvideFileActions ==
    /\ fpc = "returned"
    /\ fpc' = IF fdetails[1].current = <<>> THEN "failed" ELSE "shown"
    /\ UNCHANGED <<fkind, fvia, furiRev, fcached, fhaveFile, fuseRev, fqueries,
                   fdetails, ferrors, fserver>>
    /\ UNCHANGED notF

\* files: [change.current.file + "#" + change.current.revision]
syncFilesBad(change) ==
    <<change.latest[1].file \o "#" \o change.latest[1].revision>>
syncFiles(change) ==
    <<change.current[1].file \o "#" \o change.current[1].revision>>

\* makeNextAndPrevPicks; the file history of the model has no integrations,
\* so integFrom is undefined and its item is filtered out.
makeNextAndPrevPicks(changes) ==
    <<IF changes.prev # <<>>
      THEN Item("$(arrow-small-left) Previous revision",
                <<changes.prev[1].revision>>, TRUE)
      ELSE Item("$(arrow-small-left) Previous revision", <<"n/a">>, FALSE),
      IF changes.next # <<>>
      THEN Item("$(arrow-small-right) Next revision",
                <<changes.next[1].revision>>, TRUE)
      ELSE Item("$(arrow-small-right) Next revision", <<"n/a">>, FALSE),
      Item("$(symbol-numeric) File history...", <<>>, TRUE),
      Item("$(source-control) Go to integration target...", <<>>, TRUE)>>

\* makeClipboardPicks of the file quick pick
makeFileClipboardPicks(changes) ==
    <<Item("Copy depot path", syncFiles(changes), TRUE)>>

makeSyncPicks(changes) ==
    <<Item("$(repo-pull) Sync this revision", syncFiles(changes), TRUE)>>

\* latest !== changes.current: both are entries of the file log, the same
\* object when they are equal.
notLatestBad(changes) == TRUE
notLatest(changes) == changes.latest # changes.current

makeDiffPicks(changes) ==
    <<Item("$(file) Show this revision", <<>>, TRUE)>>
    \o (IF changes.haveFile # <<>>
        THEN <<Item("$(file) Open workspace file", <<>>, TRUE)>>
        ELSE <<>>)
    \o <<Item("$(list-ordered) Annotate this revision", <<>>, TRUE)>>
    \o (IF changes.prev # <<>>
        THEN <<Item("$(diff) Diff against previous revision",
                    <<changes.prev[1].revision,
                      changes.current[1].revision>>, TRUE)>>
        ELSE <<>>)
    \o (IF notLatest(changes)
        THEN <<Item("$(diff) Diff against latest revision",
                    <<changes.current[1].revision,
                      changes.latest[1].revision>>, TRUE)>>
        ELSE <<>>)
    \o <<Item("$(diff) Diff against workspace file",
              IF changes.haveFile # <<>> THEN <<>>
              ELSE <<"No matching workspace file found">>,
              changes.haveFile # <<>>),
         Item("$(diff) Diff against...", <<>>, TRUE)>>

makeChangelistPicks(changes) ==
    <<Item("$(list-flat) Go to changelist details",
           <<changes.current[1].chnum>>, TRUE)>>

\* The items of fileQuickPickProvider.provideActions.
fileQuickPick(changes) ==
    makeNextAndPrevPicks(changes)
    \o makeFileClipboardPicks(changes)
    \o makeSyncPicks(changes)
    \o makeDiffPicks(changes)
    \o makeChangelistPicks(changes)

\* The item of that label is in the pick and has an action.
canPerform(items, label) ==
    \E i \in 1..Len(items) : items[i].label = label /\ items[i].action

\* performAction of "Previous revision" (lines 417-424).
ShowPreviousRevision ==
    /\ fpc = "shown"
    /\ fkind = "file"
    /\ canPerform(fileQuickPick(fdetails[1]),
                  "$(arrow-small-left) Previous revision")
    /\ getChangeDetails("file", "prev", fdetails[1].prev[1].revision,
                        makeCache(fdetails[1]))

\* performAction of "Next revision" (lines 434-441).
ShowNextRevision ==
    /\ fpc = "shown"
    /\ fkind = "file"
    /\ canPerform(fileQuickPick(fdetails[1]),
                  "$(arrow-small-right) Next revision")
    /\ getChangeDetails("file", "next", fdetails[1].next[1].revision,
                        makeCache(fdetails[1]))

\* performAction of "File history..." (lines 450-452), and of the controls
\* of the revision chooser (lines 300-336).
ShowRevChooser ==
    /\ fpc = "shown"
    /\ fkind \in {"file", "filerev"}
    /\ getChangeDetails("filerev", "history", furiRev, makeCache(fdetails[1]))

\* performAction of a revision of the revision chooser (lines 240-247).
ChooseRevision ==
    /\ fpc = "shown"
    /\ fkind = "filerev"
    /\ \E i \in 1..Len(fdetails[1].all) :
        getChangeDetails("file", "choose", fdetails[1].all[i].revision,
                         makeCache(fdetails[1]))

\* performAction of "Diff against..." (lines 601-603) and of the control of
\* the diff chooser (lines 358-360): fileDiffQuickPickProvider passes no cache.
ShowDiffChooser ==
    /\ fpc = "shown"
    /\ fkind \in {"file", "filediff"}
    /\ getChangeDetails("filediff", "diff", furiRev, NoCache)

\* A new revision of the file is submitted to the depot.
DepotSubmit ==
    /\ fserver.head < MaxRevs
    /\ fserver' = [fserver EXCEPT !.head = @ + 1]
    /\ UNCHANGED <<fpc, fkind, fvia, furiRev, fcached, fhaveFile, fuseRev,
                   fqueries, fdetails, ferrors>>
    /\ UNCHANGED notF

\* The workspace is synced to another revision of the file, or to none.
DepotSync ==
    /\ \E have \in 0..fserver.head :
        /\ have # fserver.have
        /\ fserver' = [fserver EXCEPT !.have = have]
    /\ UNCHANGED <<fpc, fkind, fvia, furiRev, fcached, fhaveFile, fuseRev,
                   fqueries, fdetails, ferrors>>
    /\ UNCHANGED notF

\* Most p4.sync calls of the quick pick.
MaxSyncs == 2

InitSync ==
    /\ ypc = "idle"
    /\ ysynced = <<>>
    /\ ylog = <<>>

\* What performAction does once p4.sync has resolved.
AfterSyncBad == <<"message", "resolved">>
AfterSync == <<"resolved", "message">>

\* performAction of "Sync this revision" up to its await; the pick closes.
SyncThisRevision ==
    /\ fpc = "shown"
    /\ fkind = "file"
    /\ canPerform(fileQuickPick(fdetails[1]), "$(repo-pull) Sync this revision")
    /\ ypc = "idle"
    /\ Len(ysynced) < MaxSyncs
    /\ ysynced' = Append(ysynced, syncFiles(fdetails[1]))
    /\ ylog' = Append(ylog, "sync")
    /\ ypc' = "syncing"
    /\ fpc' = "idle"
    /\ UNCHANGED <<fkind, fvia, furiRev, fcached, fhaveFile, fuseRev, fqueries,
                   fdetails, ferrors, fserver>>
    /\ UNCHANGED notFY

\* p4.sync resolved: Display.showMessage("File synced").
SyncResolves ==
    /\ ypc = "syncing"
    /\ ylog' = ylog \o AfterSync
    /\ ypc' = "idle"
    /\ UNCHANGED <<ysynced, fvars, notFY>>

\* p4.sync rejected: performAction rejects.
SyncRejects ==
    /\ ypc = "syncing"
    /\ ylog' = Append(ylog, "rejected")
    /\ ypc' = "idle"
    /\ UNCHANGED <<ysynced, fvars, notFY>>

NextFile ==
    \/ ShowQuickPickForFile
    \/ HaveReturns
    \/ FileLogReturns
    \/ QueryFails
    \/ ProvideFileActions
    \/ ShowPreviousRevision
    \/ ShowNextRevision
    \/ ShowRevChooser
    \/ ChooseRevision
    \/ ShowDiffChooser
    \/ DepotSubmit
    \/ DepotSync
    \/ SyncThisRevision
    \/ SyncResolves
    \/ SyncRejects

(***************************************************************************)
(* "Unshelve via branch mapping..." and searchForBranch.  A string is the  *)
(* sequence of its characters.                                             *)
(***************************************************************************)

\* Longest branch name typed into the input box.
MaxBranchLen == 3

\* The characters typed: a letter and the wildcard.
BranchChars == {"a", "*"}

\* The branch specs of the server.
BranchNames == {<<"m", "a", "i", "n">>, <<"d", "e", "v">>}

\* Most branches p4.branches answers with.
MaxBranches == 2

InitBranch ==
    /\ bpc = "idle"
    /\ binput = <<>>
    /\ bfilter = <<>>
    /\ bbranches = <<>>
    /\ bopened = <<>>
    /\ breopened = FALSE
    /\ berrors = <<>>

\* String.prototype.includes for a character.
includes(str, c) == \E i \in 1..Len(str) : str[i] = c

\* String.prototype.replace(c, by) with a string pattern: the first
\* occurrence of c only.
replace(str, c, by) ==
    LET hits == {i \in 1..Len(str) : str[i] = c}
    IN IF hits = {} THEN str
       ELSE LET i == CHOOSE i \in hits : \A j \in hits : i <= j
            IN SubSeq(str, 1, i - 1) \o by \o SubSeq(str, i + 1, Len(str))

\* nameFilter: branch.replace("*", "...")
nameFilter(branch) == replace(branch, "*", <<".", ".", ".">>)

\* Lines 374-378: chosen is an optional string.
AfterChosen(chosen) ==
    IF chosen = <<>>
    THEN /\ breopened' = TRUE
         /\ bopened' = <<>>
         /\ bpc' = "done"
    ELSE /\ bopened' = chosen
         /\ breopened' = FALSE
         /\ bpc' = "done"

\* performAction of "Unshelve via branch mapping...": the input box is shown.
UnshelveViaBranchMapping ==
    /\ bpc \in {"idle", "done"}
    /\ bpc' = "input"
    /\ binput' = <<>>
    /\ bfilter' = <<>>
    /\ bbranches' = <<>>
    /\ bopened' = <<>>
    /\ breopened' = FALSE
    /\ berrors' = <<>>
    /\ UNCHANGED notB

\* showInputBox returned: a string, or undefined when dismissed.
BranchEntered ==
    /\ bpc = "input"
    /\ \E branch \in {<<>>} \cup {<<s>> : s \in SeqsUpTo(BranchChars, MaxBranchLen)} :
        /\ binput' = branch
        /\ IF branch # <<>> /\ includes(branch[1], "*")
           THEN /\ bfilter' = <<nameFilter(branch[1])>>
                /\ bpc' = "searching"
                /\ UNCHANGED <<bopened, breopened>>
           ELSE /\ AfterChosen(branch)
                /\ UNCHANGED bfilter
    /\ UNCHANGED <<bbranches, berrors>>
    /\ UNCHANGED notB

\* p4.branches answered.
BranchesReturn ==
    /\ bpc = "searching"
    /\ \E branches \in SeqsUpTo(BranchNames, MaxBranches) :
        /\ bbranches' = branches
        /\ IF Len(branches) < 1
           THEN /\ berrors' = Append(berrors, "No branch mappings match")
                /\ AfterChosen(<<>>)
           ELSE /\ bpc' = "choosing"
                /\ UNCHANGED <<bopened, breopened, berrors>>
    /\ UNCHANGED <<binput, bfilter>>
    /\ UNCHANGED notB

\* p4.branches rejected: searchForBranch shows the error and returns undefined.
BranchesFail ==
    /\ bpc = "searching"
    /\ berrors' = Append(berrors, "error")
    /\ AfterChosen(<<>>)
    /\ UNCHANGED <<binput, bfilter, bbranches>>
    /\ UNCHANGED notB

\* showQuickPick of the matching branches returned: one of them, or undefined.
BranchChosen ==
    /\ bpc = "choosing"
    /\ \E chosen \in {<<>>} \cup {<<bbranches[i]>> : i \in 1..Len(bbranches)} :
        AfterChosen(chosen)
    /\ UNCHANGED <<binput, bfilter, bbranches, berrors>>
    /\ UNCHANGED notB

NextBranch ==
    \/ UnshelveViaBranchMapping
    \/ BranchEntered
    \/ BranchesReturn
    \/ BranchesFail
    \/ BranchChosen

(***************************************************************************)
(* parseSpecOutput.  A string is the sequence of its characters.           *)
(***************************************************************************)

\* Longest spec text parsed.
MaxSpecLen == 5

\* The characters of a spec text: a letter, the colon, the comment mark, the
\* tab of an indented line and the line break.
SpecChars == {"a", ":", "#", "\t", "\n"}

\* The spec texts parsed.
SpecTexts == SeqsUpTo(SpecChars, MaxSpecLen)

InitParser ==
    /\ pvalue = <<>>
    /\ pfields = <<>>

\* String.prototype.slice(start, end): a negative index counts from the end.
slice(str, start, end) ==
    LET n == Len(str)
        from == IF start < 0 THEN (IF n + start < 0 THEN 0 ELSE n + start)
                ELSE (IF start > n THEN n ELSE start)
        to == IF end < 0 THEN (IF n + end < 0 THEN 0 ELSE n + end)
              ELSE (IF end > n THEN n ELSE end)
    IN SubSeq(str, from + 1, to)

\* String.prototype.indexOf for a character: from 0, -1 when absent.
indexOf(str, c) ==
    LET hits == {i \in 1..Len(str) : str[i] = c}
    IN IF hits = {} THEN -1
       ELSE (CHOOSE i \in hits : \A j \in hits : i <= j) - 1

startsWith(str, c) == str # <<>> /\ str[1] = c

\* CommandUtils.splitIntoLines: str.split at every line break.
RECURSIVE splitIntoLines(_)
splitIntoLines(str) ==
    LET at == indexOf(str, "\n")
    IN IF at = -1 THEN <<str>>
       ELSE <<slice(str, 0, at)>>
            \o splitIntoLines(slice(str, at + 1, Len(str)))

\* CommandUtils.splitIntoSections: str.split at every empty line, that is at
\* two line breaks in a row, found from the left.
RECURSIVE splitIntoSections(_)
splitIntoSections(str) ==
    LET hits == {i \in 1..(Len(str) - 1) : str[i] = "\n" /\ str[i + 1] = "\n"}
    IN IF hits = {} THEN <<str>>
       ELSE LET i == CHOOSE i \in hits : \A j \in hits : i <= j
            IN <<SubSeq(str, 1, i - 1)>>
               \o splitIntoSections(SubSeq(str, i + 2, Len(str)))

\* CommandUtils.removeLeadingNewline
removeLeadingNewline(str) ==
    IF startsWith(str, "\n") THEN slice(str, 1, Len(str)) ELSE str

\* CommandUtils.removeIndent: the leading tab of every line is dropped.
removeIndent(lines) ==
    [i \in 1..Len(lines) |->
        IF startsWith(lines[i], "\t") THEN slice(lines[i], 1, Len(lines[i]))
        ELSE lines[i]]

parseRawField(value) ==
    removeIndent(splitIntoLines(removeLeadingNewline(value)))

\* The body of the map of parseRawFields, for one part.
rawField(field) ==
    LET colPos == indexOf(field, ":")
    IN [name |-> slice(field, 0, colPos),
        value |-> parseRawField(slice(field, colPos + 2, Len(field)))]

parseRawFields(parts) == [i \in 1..Len(parts) |-> rawField(parts[i])]

excludeNonFields(parts) ==
    SelectSeq(parts, LAMBDA part : ~startsWith(part, "#") /\ part # <<>>)

parseSpecOutput(value) ==
    parseRawFields(excludeNonFields(splitIntoSections(value)))

\* parseSpecOutput is called with the spec text and returns.
ParseSpecOutput ==
    /\ pfields = <<>>
    /\ pfields' = <<parseSpecOutput(pvalue)>>
    /\ UNCHANGED <<pvalue, notP>>

NextParser ==
    \/ ParseSpecOutput

(***************************************************************************)
(* The search result tree: SearchResultTree and its SearchResultItems.     *)
(* Each p4 call in flight carries the answer the server gave it; calls     *)
(* return in any order.                                                    *)
(***************************************************************************)

\* Most results of one search.
MaxResults == 2

\* Most calls of refresh().
MaxRefreshes == 2

\* Most changes of the server's changelists.
MaxServerChanges == 1

\* The i-th file of a changelist.
File(i) ==
    [depotPath |-> "//depot/f" \o ToString(i), revision |-> "1",
     operation |-> "edit"]

Files(n) == [i \in 1..n |-> File(i)]

TreeFileLists == {Files(n) : n \in 0..MaxFiles}

\* What a changelist of the server can be: only a pending one has a shelf.
DepotChanges ==
    {c \in [isPending : BOOLEAN, affectedFiles : TreeFileLists,
            shelvedFiles : TreeFileLists] :
        ~c.isPending => c.shelvedFiles = <<>>}

\* p4.ChangeInfo of changelist ch.
ChangeInfo(depot, ch) == [chnum |-> ch, isPending |-> depot[ch].isPending]

\* What a search answers: the changelists that match, any of them repeated.
searchResults(depot, chnums) ==
    [i \in 1..Len(chnums) |-> ChangeInfo(depot, chnums[i])]

\* What p4.describe answers, without and with shelved: true.
describe(depot, chnums, shelved) ==
    [i \in 1..Len(chnums) |->
        [chnum |-> chnums[i],
         isPending |-> depot[chnums[i]].isPending,
         affectedFiles |->
            IF shelved THEN <<>> ELSE depot[chnums[i]].affectedFiles,
         shelvedFiles |->
            IF shelved THEN depot[chnums[i]].shelvedFiles ELSE <<>>]]

\* A p4 call in flight: `no` is the generation of the children it was issued
\* for (of a search: the number of the refresh), `resp` what it will answer.
Call(kind, no, chnums, resp, version) ==
    [kind |-> kind, no |-> no, chnums |-> chnums, resp |-> resp,
     version |-> version]

InitTree ==
    /\ sdepot = [ch \in Chnums |->
                    IF ch = "1"
                    THEN [isPending |-> TRUE, affectedFiles |-> Files(1),
                          shelvedFiles |-> Files(1)]
                    ELSE [isPending |-> FALSE, affectedFiles |-> Files(1),
                          shelvedFiles |-> <<>>]]
    /\ sversion = 0
    /\ tpc = "none"
    /\ tresults = <<>>
    /\ tchildren = <<>>
    /\ tcalls = {}
    /\ tgen = 0
    /\ trefreshes = 0
    /\ tversion = 0
    /\ terrors = 0
    /\ tfailed = FALSE
    /\ traw = <<>>

\* TsUtils.dedupe(items, "chnum"): the first item of every chnum is kept.
RECURSIVE dedupe(_)
dedupe(items) ==
    IF items = <<>> THEN <<>>
    ELSE LET front == dedupe(SubSeq(items, 1, Len(items) - 1))
             last == items[Len(items)]
         IN IF \E i \in 1..Len(front) : front[i].chnum = last.chnum
            THEN front
            ELSE Append(front, last)

\* new SearchResultItem(resource, r): `from` is the generation of the
\* describe call whose details it shows, 0 when it shows none.
SearchResultItem(r) ==
    [chnum |-> r.chnum, isPending |-> r.isPending, children |-> <<>>,
     from |-> 0]

newChildrenBad(results) ==
    [i \in 1..(2 * Len(results)) |->
        SearchResultItem(results[((i - 1) % Len(results)) + 1])]

\* this._results.map((r) => new SearchResultItem(..)), each added in turn.
newChildren(results) ==
    [i \in 1..Len(results) |-> SearchResultItem(results[i])]

\* scm/Status GetStatus: the Status of an operation of p4.
GetStatus(operation) ==
    CASE operation = "add" -> "ADD"
      [] operation = "branch" -> "BRANCH"
      [] operation = "delete" -> "DELETE"
      [] operation = "edit" -> "EDIT"
      [] operation = "integrate" -> "INTEGRATE"
      [] operation = "move/add" -> "MOVE_ADD"
      [] operation = "move/delete" -> "MOVE_DELETE"
      [] OTHER -> "UNKNOWN"

\* scm/Status operationCreatesFile and operationDeletesFile
operationCreatesFile(status) == status \in {"ADD", "BRANCH", "MOVE_ADD"}

operationDeletesFile(status) == status \in {"DELETE", "MOVE_DELETE"}

\* SearchResultFile.canDiff and canOpen
canDiff(change) == ~change.isPending

canOpenBad(file, change) ==
    ~operationDeletesFile(GetStatus(file.operation))
canOpen(file, change) ==
    IF change.isPending THEN FALSE
    ELSE ~operationDeletesFile(GetStatus(file.operation))

\* SearchResultShelvedFile.canDiff and canOpen
canDiffShelved(file) ==
    IF operationCreatesFile(GetStatus(file.operation)) THEN FALSE ELSE TRUE

canOpenShelved(file) == ~operationDeletesFile(GetStatus(file.operation))

\* "fileResult.." + (canDiff ? "-diffable" : "") + (canOpen ? "-openable" : "")
contextValue(prefix, diffable, openable) ==
    prefix \o (IF diffable THEN "-diffable" ELSE "")
           \o (IF openable THEN "-openable" ELSE "")

\* new SearchResultFile(resource, file, change)
SearchResultFile(file, change) ==
    [label |-> file.depotPath \o "#" \o file.revision,
     description |-> file.operation,
     contextValue |-> contextValue("fileResult", canDiff(change),
                                   canOpen(file, change)),
     children |-> <<>>]

\* new SearchResultShelvedFile(resource, file, chnum)
SearchResultShelvedFile(file, chnum) ==
    [label |-> file.depotPath \o "#" \o file.revision,
     description |-> file.operation,
     contextValue |-> contextValue("fileResult-shelved", canDiffShelved(file),
                                   canOpenShelved(file)),
     children |-> <<>>]

ShelvedLabel(n) == "Shelved Files (" \o ToString(n) \o ")"

\* new SearchResultShelvedSubTree(resource, change)
SearchResultShelvedSubTree(change) ==
    [label |-> ShelvedLabel(Len(change.shelvedFiles)),
     description |-> "",
     contextValue |-> "",
     children |-> [i \in 1..Len(change.shelvedFiles) |->
                      SearchResultShelvedFile(change.shelvedFiles[i],
                                              change.chnum)]]

\* child.labelText?.startsWith("Shelved Files")
startsWithShelvedFiles(label) ==
    label \in {ShelvedLabel(n) : n \in 0..(MaxFiles + 1)}

\* SearchResultItem.addDetails, for a describe call of generation `no`.
addDetails(item, detail, no) ==
    [item EXCEPT
        !.children = [i \in 1..Len(detail.affectedFiles) |->
                         SearchResultFile(detail.affectedFiles[i], detail)],
        !.from = no]

hasShelvedFiles(detail) == Len(detail.shelvedFiles) > 0

addShelvedFilesBad(item, detail) ==
    [item EXCEPT
       !.children = IF hasShelvedFiles(detail)
                    THEN <<SearchResultShelvedSubTree(detail)>> \o @
                    ELSE @]

\* SearchResultItem.addShelvedFiles
addShelvedFiles(item, detail) ==
    LET kept == SelectSeq(item.children,
                          LAMBDA child : ~startsWithShelvedFiles(child.label))
    IN [item EXCEPT
          !.children = IF hasShelvedFiles(detail)
                       THEN <<SearchResultShelvedSubTree(detail)>> \o kept
                       ELSE kept]

\* curChildren.find((c) => c.chnum === chnum), as an index, 0 when absent.
findChild(children, chnum) ==
    LET hits == {i \in 1..Len(children) : children[i].chnum = chnum}
    IN IF hits = {} THEN 0 ELSE CHOOSE i \in hits : \A j \in hits : i <= j

\* descriptions.forEach((d) => child?.addDetails(d))
RECURSIVE addAllDetails(_, _, _)
addAllDetails(children, descriptions, no) ==
    IF descriptions = <<>> THEN children
    ELSE LET d == Head(descriptions)
             i == findChild(children, d.chnum)
         IN addAllDetails(
                IF i = 0 THEN children
                ELSE [children EXCEPT ![i] = addDetails(@, d, no)],
                Tail(descriptions), no)

\* shelvedDescriptions.forEach((d) => child?.addShelvedFiles(d))
RECURSIVE addAllShelvedFiles(_, _)
addAllShelvedFiles(children, descriptions) ==
    IF descriptions = <<>> THEN children
    ELSE LET d == Head(descriptions)
             i == findChild(children, d.chnum)
         IN addAllShelvedFiles(
                IF i = 0 THEN children
                ELSE [children EXCEPT ![i] = addShelvedFiles(@, d)],
                Tail(descriptions))

chnumsOf(results) == [i \in 1..Len(results) |-> results[i].chnum]

noResultsBad(results) == FALSE
noResults(results) == Len(results) < 1

\* populateChangeDetails up to its await: the calls in flight after it.
populateChangeDetails(results, no, calls) ==
    IF noResults(results) THEN calls
    ELSE calls \cup {Call("describe", no, chnumsOf(results),
                          describe(sdepot, chnumsOf(results), FALSE),
                          sversion)}

couldHaveShelved(results) ==
    chnumsOf(SelectSeq(results, LAMBDA r : r.isPending))

\* populateShelvedFiles up to its await: the calls in flight after it.
populateShelvedFiles(results, no, calls) ==
    IF Len(couldHaveShelved(results)) < 1 THEN calls
    ELSE calls \cup {Call("shelved", no, couldHaveShelved(results),
                          describe(sdepot, couldHaveShelved(results), TRUE),
                          sversion)}

\* The constructor of SearchResultTree, with the results of a search.
ConstructTree ==
    /\ tpc = "none"
    /\ \E chnums \in SeqsUpTo(Chnums, MaxResults) :
        /\ traw' = searchResults(sdepot, chnums)
        /\ tresults' = dedupe(traw')
        /\ tchildren' = newChildren(tresults')
        /\ tcalls' = populateChangeDetails(tresults', tgen + 1, tcalls)
    /\ tpc' = "built"
    /\ tgen' = tgen + 1
    /\ tversion' = sversion
    /\ UNCHANGED <<sdepot, sversion, trefreshes, terrors, tfailed, notT>>

\* refresh() up to its await: getNewResults is issued.
Refresh ==
    /\ tpc = "built"
    /\ trefreshes < MaxRefreshes
    /\ trefreshes' = trefreshes + 1
    /\ \E chnums \in SeqsUpTo(Chnums, MaxResults) :
        tcalls' = tcalls \cup {Call("search", trefreshes + 1, chnums,
                                    searchResults(sdepot, chnums), sversion)}
    /\ UNCHANGED <<sdepot, sversion, tpc, tresults, tchildren, tgen,
                   tversion, terrors, tfailed, traw, notT>>

\* getNewResults resolved: the rest of refresh().
RefreshReturns ==
    /\ \E c \in tcalls :
        /\ c.kind = "search"
        /\ traw' = c.resp
        /\ tresults' = dedupe(traw')
        /\ tchildren' = newChildren(tresults')
        /\ tcalls' = populateChangeDetails(tresults', tgen + 1, tcalls \ {c})
        /\ tversion' = c.version
    /\ tgen' = tgen + 1
    /\ UNCHANGED <<sdepot, sversion, tpc, trefreshes, terrors, tfailed, notT>>

\* getNewResults rejected: refresh() rejects.
RefreshFails ==
    /\ \E c \in tcalls :
        /\ c.kind = "search"
        /\ tcalls' = tcalls \ {c}
    /\ terrors' = terrors + 1
    /\ UNCHANGED <<sdepot, sversion, tpc, tresults, tchildren, tgen,
                   trefreshes, tversion, tfailed, traw, notT>>

\* p4.describe resolved: the rest of populateChangeDetails, and
\* populateShelvedFiles up to its await.
TreeDescribeReturns ==
    /\ \E c \in tcalls :
        /\ c.kind = "describe"
        /\ tchildren' = addAllDetails(tchildren, c.resp, c.no)
        /\ tcalls' = populateShelvedFiles(tresults, c.no, tcalls \ {c})
    /\ UNCHANGED <<sdepot, sversion, tpc, tresults, tgen, trefreshes,
                   tversion, terrors, tfailed, traw, notT>>

\* p4.describe rejected: populateChangeDetails rejects, and nothing awaits it.
TreeDescribeFails ==
    /\ \E c \in tcalls :
        /\ c.kind = "describe"
        /\ tcalls' = tcalls \ {c}
    /\ terrors' = terrors + 1
    /\ tfailed' = TRUE
    /\ UNCHANGED <<sdepot, sversion, tpc, tresults, tchildren, tgen,
                   trefreshes, tversion, traw, notT>>

\* The shelved p4.describe resolved: the rest of populateShelvedFiles.
TreeShelvedReturns ==
    /\ \E c \in tcalls :
        /\ c.kind = "shelved"
        /\ tchildren' = addAllShelvedFiles(tchildren, c.resp)
        /\ tcalls' = tcalls \ {c}
    /\ UNCHANGED <<sdepot, sversion, tpc, tresults, tgen, trefreshes,
                   tversion, terrors, tfailed, traw, notT>>

\* catch (err) {} of populateShelvedFiles: the errors raised after it.
shelvedCaughtBad(errors) == errors + 1
shelvedCaught(errors) == errors

\* The shelved p4.describe rejected: the catch of populateShelvedFiles.
TreeShelvedFails ==
    /\ \E c \in tcalls :
        /\ c.kind = "shelved"
        /\ tcalls' = tcalls \ {c}
    /\ tfailed' = TRUE
    /\ terrors' = shelvedCaught(terrors)
    /\ UNCHANGED <<sdepot, sversion, tpc, tresults, tchildren, tgen,
                   trefreshes, tversion, traw, notT>>

\* Somebody shelves, deletes a shelf, opens or reverts files, or submits.
ServerChange ==
    /\ sversion < MaxServerChanges
    /\ sversion' = sversion + 1
    /\ \E ch \in Chnums, change \in DepotChanges :
        /\ change # sdepot[ch]
        /\ sdepot[ch].isPending \/ ~change.isPending
        /\ sdepot' = [sdepot EXCEPT ![ch] = change]
    /\ UNCHANGED <<tpc, tresults, tchildren, tcalls, tgen, trefreshes,
                   tversion, terrors, tfailed, traw, notT>>

NextTree ==
    \/ ConstructTree
    \/ Refresh
    \/ RefreshReturns
    \/ RefreshFails
    \/ TreeDescribeReturns
    \/ TreeDescribeFails
    \/ TreeShelvedReturns
    \/ TreeShelvedFails
    \/ ServerChange

(***************************************************************************)
(* One file of a search result: the tree item of any file of a changelist. *)
(***************************************************************************)

\* The operations of p4 on a file.
Operations ==
    {"add", "edit", "delete", "branch", "integrate", "move/add", "move/delete"}

\* What a file item is constructed from: the file, whether its changelist
\* is pending, and whether it is a shelved file of it.
ResultFileInputs ==
    [file : [depotPath : {"//depot/f1"},
             revision : {ToString(r) : r \in 1..MaxRevs},
             operation : Operations],
     chnum : Chnums,
     isPending : BOOLEAN,
     shelved : BOOLEAN]

InitResultFile ==
    /\ rinput = [file |-> File(1), chnum |-> "1", isPending |-> FALSE,
                 shelved |-> FALSE]
    /\ rnode = <<>>

\* files.map((file) => new SearchResultFile(..)) of addDetails, or
\* new SearchResultShelvedFile(..) of SearchResultShelvedSubTree, for one file.
ConstructResultFile ==
    /\ rnode = <<>>
    /\ rnode' = <<IF rinput.shelved
                  THEN SearchResultShelvedFile(rinput.file, rinput.chnum)
                  ELSE SearchResultFile(rinput.file, rinput)>>
    /\ UNCHANGED <<rinput, notR>>

NextResultFile ==
    \/ ConstructResultFile

(***************************************************************************)
(* ChangelistTreeRoot: the filters, the 'Search Now' item and the result   *)
(* trees under "Results".  A result tree is here its number, its class,    *)
(* whether it is pinned, its contextValue, and the filters it was searched *)
(* with.                                                                   *)
(***************************************************************************)

\* Most result trees constructed.
MaxTrees == 4

\* Most searches started.
MaxSearches == 3

\* Most errors of the search view.
MaxSearchErrors == 1

\* The values of the filters, and the perforce clients to choose from.
FilterValues == {"none", "user:ann"}
Clients == {"client1"}

\* RunSearch.makeLabel
makeLabel(autoRefresh) ==
    "Search Now\t(Auto: " \o (IF autoRefresh THEN "on" ELSE "off") \o ")"

\* this.contextValue = this._autoRefresh ? "searchNow-auto" : "searchNow-manual"
searchNowContext(autoRefresh) ==
    IF autoRefresh THEN "searchNow-auto" ELSE "searchNow-manual"

\* this.contextValue = this._isPinned ? "results-pinned" : "results-unpinned"
resultsContext(isPinned) ==
    IF isPinned THEN "results-pinned" ELSE "results-unpinned"

\* The constructors of ChangelistTreeRoot, AllResultsTree and RunSearch, in a
\* workspace whose memento holds no value and without a perforce client.
InitAllResults ==
    /\ achildren = <<>>
    /\ anext = 0
    /\ aremoved = {}
    /\ aauto = FALSE
    /\ alabel = makeLabel(FALSE)
    /\ acontext = searchNowContext(FALSE)
    /\ afilters = "none"
    /\ aclient = <<>>
    /\ asearches = {}
    /\ astarted = 0
    /\ alast = <<>>
    /\ aerrors = 0

\* isPinnable(child) && !child.pinned: every result tree has pin and unpin.
isUnpinned(child) == ~child.pinned

\* removeUnpinned: the children that are left.
removeUnpinnedBad(children) == children
removeUnpinned(children) ==
    SelectSeq(children, LAMBDA child : ~isUnpinned(child))

\* The constructor of SearchResultTree: _isPinned is false.
SearchResultTree(id, single, filters) ==
    [id |-> id, single |-> single, pinned |-> FALSE,
     contextValue |-> resultsContext(FALSE), filters |-> filters]

\* SearchResultTree.pin and unpin
pin(tree) == [tree EXCEPT !.pinned = TRUE]
unpin(tree) == [tree EXCEPT !.pinned = FALSE]

\* new MultiSearchResultTree(..)
MultiSearchResultTree(id, filters) ==
    SearchResultTree(id, FALSE, <<filters>>)

SingleChangeResultTreeBad(id) == SearchResultTree(id, TRUE, <<>>)

\* new SingleChangeResultTree(..): super(..), then this.pin().
SingleChangeResultTree(id) == pin(SearchResultTree(id, TRUE, <<>>))

\* The module function executeSearch: p4.getChangelists is awaited.
Search(no, client, filters) ==
    [no |-> no, client |-> client, filters |-> filters]

\* ChangelistTreeRoot.executeSearch up to its await.
executeSearch(filters) ==
    IF aclient = <<>>
    THEN /\ aerrors < MaxSearchErrors
         /\ aerrors' = aerrors + 1
         /\ UNCHANGED <<asearches, astarted, alast>>
    ELSE /\ asearches' =
              asearches \cup {Search(astarted + 1, aclient[1], filters)}
         /\ astarted' = astarted + 1
         /\ alast' = <<filters>>
         /\ UNCHANGED aerrors

\* if (this._runSearch.autoRefresh) { this.executeSearch(); }
autoSearchBad(autoRefresh, filters) == executeSearch(filters)
autoSearch(autoRefresh, filters) ==
    IF autoRefresh THEN executeSearch(filters)
    ELSE UNCHANGED <<asearches, astarted, alast, aerrors>>

\* A filter is set or reset: onDidChangeFilters fires.
ChangeFilters ==
    /\ astarted < MaxSearches
    /\ \E value \in FilterValues \ {afilters} : afilters' = value
    /\ autoSearch(aauto, afilters')
    /\ UNCHANGED <<achildren, anext, aremoved, aauto, alabel, acontext,
                   aclient, notA>>

\* perforce.changeSearch.run
RunSearchCommand ==
    /\ astarted < MaxSearches
    /\ executeSearch(afilters)
    /\ UNCHANGED <<achildren, anext, aremoved, aauto, alabel, acontext,
                   afilters, aclient, notA>>

\* The setter of RunSearch.autoRefresh; didChange() fires onChanged.
SetAutoRefresh(autoRefresh) ==
    /\ astarted < MaxSearches
    /\ aauto' = autoRefresh
    /\ alabel' = makeLabel(aauto')
    /\ autoSearch(aauto', afilters)
    /\ UNCHANGED <<achildren, anext, aremoved, acontext, afilters, aclient,
                   notA>>

\* perforce.changeSearch.enableAutoRefresh
EnableAutoRefresh == SetAutoRefresh(TRUE)

\* perforce.changeSearch.disableAutoRefresh
DisableAutoRefresh == SetAutoRefresh(FALSE)

\* ChooseProviderTreeItem.setClient, from chooseProvider or when the SCM
\* providers change.
SetClient ==
    /\ \E client \in {<<>>} \cup {<<c>> : c \in Clients} :
        /\ client # aclient
        /\ aclient' = client
    /\ UNCHANGED <<achildren, anext, aremoved, aauto, alabel, acontext,
                   afilters, asearches, astarted, alast, aerrors, notA>>

\* p4.getChangelists resolved: the rest of executeSearch, addResults.
AddResults ==
    /\ anext < MaxTrees
    /\ anext' = anext + 1
    /\ \E c \in asearches :
        /\ asearches' = asearches \ {c}
        /\ achildren' =
             Append(removeUnpinned(achildren),
                    MultiSearchResultTree(anext + 1, c.filters))
    /\ aremoved' = {achildren[i].id : i \in 1..Len(achildren)}
                   \ {achildren'[i].id : i \in 1..Len(achildren')}
    /\ UNCHANGED <<aauto, alabel, acontext, afilters, aclient, astarted, alast,
                   aerrors, notA>>

\* p4.getChangelists rejected: executeSearch rejects.
SearchFails ==
    /\ \E c \in asearches : asearches' = asearches \ {c}
    /\ aerrors < MaxSearchErrors
    /\ aerrors' = aerrors + 1
    /\ UNCHANGED <<achildren, anext, aremoved, aauto, alabel, acontext,
                   afilters, aclient, astarted, alast, notA>>

\* A changelist was focused: focusChangelist, addSingleResult.
AddSingleResult ==
    /\ anext < MaxTrees
    /\ anext' = anext + 1
    /\ achildren' = Append(achildren, SingleChangeResultTree(anext + 1))
    /\ UNCHANGED <<aremoved, aauto, alabel, acontext, afilters, aclient,
                   asearches, astarted, alast, aerrors, notA>>

\* perforce.changeSearch.pin
PinTree ==
    /\ \E i \in 1..Len(achildren) :
        /\ ~achildren[i].pinned
        /\ achildren' = [achildren EXCEPT ![i] = pin(@)]
    /\ UNCHANGED <<anext, aremoved, aauto, alabel, acontext, afilters,
                   aclient, asearches, astarted, alast, aerrors, notA>>

\* perforce.changeSearch.unpin
UnpinTree ==
    /\ \E i \in 1..Len(achildren) :
        /\ achildren[i].pinned
        /\ achildren' = [achildren EXCEPT ![i] = unpin(@)]
    /\ UNCHANGED <<anext, aremoved, aauto, alabel, acontext, afilters,
                   aclient, asearches, astarted, alast, aerrors, notA>>

\* perforce.changeSearch.delete: the tree is disposed.
DeleteTree ==
    /\ \E i \in 1..Len(achildren) :
        achildren' = SubSeq(achildren, 1, i - 1)
                     \o SubSeq(achildren, i + 1, Len(achildren))
    /\ UNCHANGED <<anext, aremoved, aauto, alabel, acontext, afilters,
                   aclient, asearches, astarted, alast, aerrors, notA>>

NextAllResults ==
    \/ ChangeFilters
    \/ RunSearchCommand
    \/ EnableAutoRefresh
    \/ DisableAutoRefresh
    \/ SetClient
    \/ AddResults
    \/ SearchFails
    \/ AddSingleResult
    \/ PinTree
    \/ UnpinTree
    \/ DeleteTree

(***************************************************************************)
(* The diff revision chooser: makeDiffRevisionPicks of FileQuickPick.ts,   *)
(* and the diff that the pick of a revision opens.                         *)
(***************************************************************************)

\* Most revisions of the file whose diff chooser is shown.
MaxDiffRevs == 5

\* The ChangeDetails of any revision of a file of up to MaxDiffRevs
\* revisions, as getChangeDetails returns them.
DiffChooserInputs ==
    {changeDetails(FileHistory(head), ToString(r), <<>>) :
        head \in 1..MaxDiffRevs, r \in 1..MaxDiffRevs}

InitDiffChooser ==
    /\ dchanges = changeDetails(FileHistory(1), "1", <<>>)
    /\ dnewer = TRUE
    /\ ddiff = <<>>

\* Array.prototype.slice(start), start from 0 and inside the array.
sliceFrom(list, start) == SubSeq(list, start + 1, Len(list))

\* changes.all.findIndex((change) => change.chnum === changes.current.chnum)
findIndexOfChnum(all, chnum) ==
    LET hits == {i \in 1..Len(all) : all[i].chnum = chnum}
    IN IF hits = {} THEN -1
       ELSE (CHOOSE i \in hits : \A j \in hits : i <= j) - 1

\* ageFiltered of makeDiffRevisionPicks
ageFiltered(changes, includeNewerRevisions) ==
    IF includeNewerRevisions THEN changes.all
    ELSE sliceFrom(changes.all,
                   findIndexOfChnum(changes.all, changes.current[1].chnum))

\* const isOldRev = i > changes.currentIndex, i the index in ageFiltered
\* from 0.
isOldRev(i, changes) == i > changes.currentIndex

\* DiffProvider.diffFiles(left, right) of the pick of ageFiltered[i], the
\* files as their revisions.
diffFiles(change, i, changes) ==
    IF isOldRev(i, changes)
    THEN [left |-> change.revision, right |-> changes.current[1].revision]
    ELSE [left |-> changes.current[1].revision, right |-> change.revision]

\* revPicks of makeDiffRevisionPicks: the revision and the diff of each.
revPicks(changes, includeNewerRevisions) ==
    LET filtered == ageFiltered(changes, includeNewerRevisions)
    IN [k \in 1..Len(filtered) |->
            [revision |-> filtered[k].revision,
             diff |-> diffFiles(filtered[k], k - 1, changes)]]

\* performAction of a revision of the diff chooser.
ChooseDiffRevision ==
    /\ ddiff = <<>>
    /\ dchanges.current # <<>>
    /\ \E k \in 1..Len(revPicks(dchanges, dnewer)) :
        ddiff' = <<revPicks(dchanges, dnewer)[k]>>
    /\ UNCHANGED <<dchanges, dnewer, notD>>

NextDiffChooser ==
    \/ ChooseDiffRevision

Init ==
    /\ InitUnshelve
    /\ InitChange
    /\ InitFile
    /\ InitBranch
    /\ InitParser
    /\ InitTree
    /\ InitResultFile
    /\ InitSync
    /\ InitAllResults
    /\ InitDiffChooser

Next ==
    \/ NextUnshelve
    \/ NextChange
    \/ NextFile
    \/ NextBranch
    \/ NextParser
    \/ NextTree
    \/ NextResultFile
    \/ NextAllResults
    \/ NextDiffChooser

Spec == Init /\ [][Next]_vars

SpecTree == Init /\ [][NextTree]_vars

SpecAllResults == Init /\ [][NextAllResults]_vars

\* The diff chooser of any revision of a file, with either setting.
InitSpecDiffChooser ==
    /\ InitUnshelve
    /\ InitChange
    /\ InitFile
    /\ InitBranch
    /\ InitParser
    /\ InitTree
    /\ InitResultFile
    /\ InitSync
    /\ InitAllResults
    /\ dchanges \in {c \in DiffChooserInputs : c.current # <<>>}
    /\ dnewer \in BOOLEAN
    /\ ddiff = <<>>

SpecDiffChooser == InitSpecDiffChooser /\ [][NextDiffChooser]_vars

\* The construction of the tree item of any file.
InitSpecResultFile ==
    /\ InitUnshelve
    /\ InitChange
    /\ InitFile
    /\ InitBranch
    /\ InitParser
    /\ InitTree
    /\ rinput \in ResultFileInputs
    /\ rnode = <<>>
    /\ InitSync
    /\ InitAllResults
    /\ InitDiffChooser

SpecResultFile == InitSpecResultFile /\ [][NextResultFile]_vars

\* The parser before a call of parseSpecOutput with any of the spec texts.
InitSpecParser ==
    /\ InitUnshelve
    /\ InitChange
    /\ InitFile
    /\ InitBranch
    /\ pvalue \in SpecTexts
    /\ pfields = <<>>
    /\ InitTree
    /\ InitResultFile
    /\ InitSync
    /\ InitAllResults
    /\ InitDiffChooser

SpecParser == InitSpecParser /\ [][NextParser]_vars

SpecBranch == Init /\ [][NextBranch]_vars

SpecUnshelve == Init /\ [][NextUnshelve]_vars

SpecChange == Init /\ [][NextChange]_vars

SpecFile == Init /\ [][NextFile]_vars

\* The part of ulog that belongs to the latest unshelveAndRefresh call.
LastRun ==
    LET starts == {i \in 1..Len(ulog) : ulog[i] = "unshelve"}
        from == IF starts = {} THEN 1
                ELSE CHOOSE i \in starts : \A j \in starts : j <= i
    IN SubSeq(ulog, from, Len(ulog))

\* C1: whenever the resolve warning is shown, RefreshAll was issued earlier
\* in the same unshelveAndRefresh call, after "Changelist unshelved".
C1_RefreshBeforePrompt ==
    \A j \in 1..Len(LastRun) :
        LastRun[j] = "prompt" =>
            \E i \in 1..(j - 1) : LastRun[i] = "refresh"

C1_Witness ==
    /\ upc = "prompting"
    /\ \E j \in 1..Len(LastRun) : LastRun[j] = "prompt"

\* C2: in the latest unshelveAndRefresh call the resolve warning was shown
\* if and only if p4 unshelve succeeded with at least one warning.
C2_PromptIffWarnings ==
    (\E j \in 1..Len(LastRun) : LastRun[j] = "prompt")
        <=> (uresult = "ok" /\ uwarnings > 0)

C2_Witness ==
    /\ uresult = "ok"
    /\ uwarnings = 2
    /\ ubuttons = <<>>
    /\ LastRun = <<"unshelve", "message", "refresh", "prompt">>

\* The items of the pick that was returned.
PickItems == cpick[1].items

HasItem(label) == \E i \in 1..Len(PickItems) : PickItems[i].label = label

\* C9: the placeHolder of a returned changelist quick pick begins with
\* "Pending change <chnum>" exactly when the described change is pending, and
\* with "Submitted change <chnum>" otherwise.
C9_PlaceHolderStatus ==
    cpc = "shown" =>
        LET ph == cpick[1].placeHolder
        IN /\ SubSeq(ph, 2, 3) = <<" change ", cchnum>>
           /\ ph[1] = "Pending" <=> cchange[1].isPending
           /\ ph[1] = "Submitted" <=> ~cchange[1].isPending

C9_Witness ==
    /\ cpc = "shown"
    /\ cchange[1].isPending
    /\ cpick[1].placeHolder[1] = "Pending"

\* C10: the two unshelve actions and the "Shelved files: N" header are all
\* present when the change is pending and its shelved description has a
\* shelved file, and all absent otherwise; no shelved describe call is
\* issued for a submitted change.
C10_UnshelveWithShelved ==
    /\ cpc = "shown" =>
        LET has == /\ cchange[1].isPending
                   /\ cshelved # <<>>
                   /\ Len(cshelved[1].shelvedFiles) >= 1
        IN /\ HasItem("$(cloud-download) Unshelve changelist...") <=> has
           /\ HasItem("$(cloud-download) Unshelve via branch mapping...") <=> has
           /\ HasItem("Shelved files: ") <=> has
    /\ (cchange # <<>> /\ ~cchange[1].isPending) =>
        \A i \in 1..Len(cdescribes) : ~cdescribes[i].shelved

C10_Witness ==
    /\ cpc = "shown"
    /\ cshelved # <<>>
    /\ Len(cshelved[1].shelvedFiles) = 2
    /\ HasItem("$(cloud-download) Unshelve changelist...")
    /\ HasItem("Shelved files: ")
\* getChangeDetails has returned a ChangeDetails for the latest request.
Returned == fpc \in {"returned", "shown"} /\ fdetails # <<>>

\* C4: whenever getChangeDetails returns, current is the entry of the file
\* history whose revision is the selected revision, at index currentIndex
\* inside the history; next is the entry just before it (newer) and prev the
\* entry just after it (older), each absent at its end of the history; latest
\* is the first entry.
C4_PointersConsistent ==
    Returned =>
        LET d == fdetails[1]
            n == Len(d.all)
        IN /\ d.currentIndex \in 0..(n - 1)
           /\ d.current = <<d.all[d.currentIndex + 1]>>
           /\ d.current[1].revision = fuseRev
           /\ d.next = IF d.currentIndex = 0 THEN <<>>
                       ELSE <<d.all[d.currentIndex]>>
           /\ d.prev = IF d.currentIndex = n - 1 THEN <<>>
                       ELSE <<d.all[d.currentIndex + 2]>>
           /\ d.latest = <<d.all[1]>>

\* C5 as stated: every getChangeDetails that returned has issued a have query
\* and a file-history query of its own.
C5_AlwaysRebuilt ==
    Returned => fqueries = <<"have", "filelog">>

\* C5, amended: getChangeDetails issues a have query exactly when it was
\* given no cached haveFile and a file-history query exactly when it was
\* given no cached filelog; otherwise it returns the cached values.  The quick
\* picks opened from outside and the diff chooser pass no cache; those opened
\* by previous/next revision, by the revision chooser or from it pass the
\* file log (and the haveFile, if any) of the ChangeDetails they came from.
C5_RebuiltUnlessCached ==
    Returned =>
        LET d == fdetails[1]
            asked(q) == \E i \in 1..Len(fqueries) : fqueries[i] = q
        IN /\ asked("have") <=> fcached.haveFile = <<>>
           /\ asked("filelog") <=> fcached.filelog = <<>>
           /\ fcached.haveFile # <<>> => d.haveFile = fcached.haveFile
           /\ fcached.filelog # <<>> => d.all = fcached.filelog[1]
           /\ fvia \in {"open", "diff"} => fcached = NoCache
           /\ fvia \in {"prev", "next", "history", "choose"} =>
                fcached.filelog # <<>>

\* A previous-revision quick pick that reused a file log the depot has
\* outgrown, and asked the depot nothing.
C5_Witness ==
    /\ Returned
    /\ fvia = "prev"
    /\ fqueries = <<>>
    /\ Len(fdetails[1].all) < fserver.head

\* `str` with every "*" replaced by "...".
EveryStarReplaced(str) ==
    IF str = <<>> THEN <<>>
    ELSE LET withStars[i \in 0..Len(str)] ==
                 IF i = 0 THEN <<>>
                 ELSE withStars[i - 1]
                      \o (IF str[i] = "*" THEN <<".", ".", ".">> ELSE <<str[i]>>)
         IN withStars[Len(str)]

\* C6: a branch name with a "*" is never the mapping itself: it starts a
\* search whose name filter is the input with every "*" replaced by "..." and
\* holds no "*", and the unshelve picker is opened only with one of the
\* branches found.
C6_StarIsWildcard ==
    (binput # <<>> /\ includes(binput[1], "*")) =>
        /\ bfilter # <<>>
        /\ bfilter[1] = EveryStarReplaced(binput[1])
        /\ ~includes(bfilter[1], "*")
        /\ bopened # <<>> =>
            \E i \in 1..Len(bbranches) : bopened[1] = bbranches[i]

\* What does hold of the same steps: the search is started, its filter has
\* the first "*" replaced, and the picker opens only with a branch found.
C6_FirstStarOnly ==
    (binput # <<>> /\ includes(binput[1], "*")) =>
        /\ bfilter = <<nameFilter(binput[1])>>
        /\ bopened # <<>> =>
            \E i \in 1..Len(bbranches) : bopened[1] = bbranches[i]

\* The sections of the parsed text that are fields: not empty, not comments.
FieldSections ==
    SelectSeq(splitIntoSections(pvalue),
              LAMBDA s : s # <<>> /\ s[1] # "#")

\* The text of `section` before its first colon.  Of a section without a
\* colon that is the whole section, or nothing: either reading is accepted.
IsTextBeforeColon(name, section) ==
    IF \E i \in 1..Len(section) : section[i] = ":"
    THEN /\ Len(name) < Len(section)
         /\ name = SubSeq(section, 1, Len(name))
         /\ section[Len(name) + 1] = ":"
         /\ \A i \in 1..Len(name) : name[i] # ":"
    ELSE name \in {section, <<>>}

\* C8: parseSpecOutput returns one field per section that is neither empty
\* nor a comment, in the order of the sections, and the name of each is the
\* text of its section before the first colon.
C8_OneFieldPerSection ==
    pfields # <<>> =>
        /\ Len(pfields[1]) = Len(FieldSections)
        /\ \A i \in 1..Len(pfields[1]) :
            IsTextBeforeColon(pfields[1][i].name, FieldSections[i])

\* What does hold: the count and the order, and the name of every section
\* that has a colon.
FieldsOfSectionsWithColon ==
    pfields # <<>> =>
        /\ Len(pfields[1]) = Len(FieldSections)
        /\ \A i \in 1..Len(pfields[1]) :
            includes(FieldSections[i], ":") =>
                IsTextBeforeColon(pfields[1][i].name, FieldSections[i])

\* The 'Shelved Files' groups among the children of a changelist item.
ShelvedGroups(item) ==
    SelectSeq(item.children, LAMBDA node : startsWithShelvedFiles(node.label))

\* Every describe call of the tree has completed, none has failed, no refresh
\* is under way, and the server is as it was when the latest search of the
\* tree was served.
Settled ==
    /\ tpc = "built"
    /\ tcalls = {}
    /\ ~tfailed
    /\ tversion = sversion

\* C3: once every describe call issued for a result tree has completed
\* successfully and no refresh is under way, every pending changelist of the
\* tree with shelved files has one group 'Shelved Files (n)' whose children
\* are exactly its shelved files, and no other changelist item has a group.
C3_ShelvedFilesShown ==
    Settled =>
        \A i \in 1..Len(tchildren) :
            LET item == tchildren[i]
                change == sdepot[item.chnum]
            IN IF change.isPending /\ change.shelvedFiles # <<>>
               THEN ShelvedGroups(item) =
                        <<SearchResultShelvedSubTree(
                            describe(sdepot, <<item.chnum>>, TRUE)[1])>>
               ELSE ShelvedGroups(item) = <<>>

\* While the server does not change, the settled tree does show the shelves.
ShelvedFilesShownOfFrozenServer ==
    sversion = 0 => C3_ShelvedFilesShown

NonePending(results) == \A i \in 1..Len(results) : ~results[i].isPending

\* C7: no describe call is issued in a step that leaves the tree with zero
\* results, and no shelved describe call in a step of a tree none of whose
\* results is pending; when the children are rebuilt for zero results, or the
\* describe call returns to a tree without a pending result, no call is
\* issued, the children stay as they were built (as addDetails left them) and
\* no error is raised.
C7_NoDescribeWithoutResults ==
    [][/\ \A c \in tcalls' \ tcalls :
            /\ c.kind = "describe" => tresults' # <<>>
            /\ c.kind = "shelved" => ~NonePending(tresults')
       /\ (ConstructTree \/ RefreshReturns) /\ tresults' = <<>> =>
            /\ tcalls' \subseteq tcalls
            /\ tchildren' = <<>>
            /\ terrors' = terrors
       /\ TreeDescribeReturns /\ NonePending(tresults) =>
            /\ tcalls' \subseteq tcalls
            /\ \E c \in tcalls \ tcalls' :
                tchildren' = addAllDetails(tchildren, c.resp, c.no)
            /\ terrors' = terrors]_vars

\* A refresh has left the tree without results: no call is in flight, and
\* no error was raised.
C7_Witness ==
    /\ tpc = "built"
    /\ tgen = 2
    /\ tresults = <<>>
    /\ tchildren = <<>>
    /\ tcalls = {}
    /\ terrors = 0

\* C11: when the describe call of the requested changelist answers with no
\* change, provideActions shows 'Unable to find change details' and throws:
\* no shelved describe call is issued and no action list is produced.
C11_NoChangeDetails ==
    [][DescribeReturns /\ cchange' = <<>> =>
        /\ cerrors' = <<"Unable to find change details">>
        /\ cpc' = "failed"
        /\ \A i \in 1..Len(cdescribes') : ~cdescribes'[i].shelved
        /\ cpick' = <<>>]_vars

\* unshelveAndRefresh has returned.
UnshelveDone == upc = "idle" /\ ulog # <<>>

\* The latest unshelveAndRefresh call has returned: nothing of it is awaited
\* (a later "New changelist" action may be creating its changelist).
UnshelveReturned == upc \in {"idle", "creating"}

\* On every path the SCM view is refreshed at least once.
RefreshedOnEveryPath ==
    UnshelveDone => \E i \in 1..Len(LastRun) : LastRun[i] = "refresh"

\* C12: when p4 unshelve fails, whatever it rejects with, the call shows the
\* error and refreshes the SCM view and nothing else; and on every path the
\* SCM view is refreshed at least once.
C12_ErrorAlwaysShown ==
    /\ uresult \in {"failed", "rejected"} =>
        /\ UnshelveReturned
        /\ LastRun = <<"unshelve", "error", "refresh">>
    /\ RefreshedOnEveryPath

\* C12, amended: when p4 unshelve fails the call returns having refreshed
\* the SCM view, without a message, a prompt or a resolve; the error is
\* shown exactly when the rejection is an Error; and on every path the SCM
\* view is refreshed at least once.
C12_ErrorShownIfError ==
    /\ uresult \in {"failed", "rejected"} =>
        /\ UnshelveReturned
        /\ LastRun = <<"unshelve">>
                     \o (IF uresult = "failed" THEN <<"error">> ELSE <<>>)
                     \o <<"refresh">>
    /\ RefreshedOnEveryPath

\* p4 unshelve has rejected with an Error.
C12_Witness ==
    /\ uresult = "failed"
    /\ upc = "idle"
    /\ LastRun = <<"unshelve", "error", "refresh">>

\* The first index of chnum in the sequence of chnums.
FirstAt(chnums, chnum) ==
    CHOOSE i \in 1..Len(chnums) :
        /\ chnums[i] = chnum
        /\ \A j \in 1..(i - 1) : chnums[j] # chnum

\* `out` is `all` without its repetitions: every chnum of `all` once, in the
\* order of the first occurrences.
IsDeduplicated(out, all) ==
    /\ \A i, j \in 1..Len(out) : i # j => out[i] # out[j]
    /\ {out[i] : i \in 1..Len(out)} = {all[i] : i \in 1..Len(all)}
    /\ \A i, j \in 1..Len(out) :
        i < j => FirstAt(all, out[i]) < FirstAt(all, out[j])

\* C13: the changelist items of the tree have pairwise distinct changelist
\* numbers, and they are the results the tree was last built from (by the
\* constructor or by refresh) without their repetitions, in order.
C13_DistinctChildren ==
    /\ \A i, j \in 1..Len(tchildren) :
        i # j => tchildren[i].chnum # tchildren[j].chnum
    /\ IsDeduplicated(chnumsOf(tchildren), chnumsOf(traw))

\* A refresh was answered with the same changelist twice.
C13_Witness ==
    /\ tgen = 2
    /\ chnumsOf(traw) = <<"2", "2">>
    /\ chnumsOf(tchildren) = <<"2">>

\* The "when" clauses of the buttons: the contextValue has the mark.
MarkedDiffable(context) ==
    context \in {"fileResult-diffable", "fileResult-diffable-openable",
                 "fileResult-shelved-diffable",
                 "fileResult-shelved-diffable-openable"}

MarkedOpenable(context) ==
    context \in {"fileResult-openable", "fileResult-diffable-openable",
                 "fileResult-shelved-openable",
                 "fileResult-shelved-diffable-openable"}

\* C14: a file of a search result that is not shelved is marked diffable
\* exactly when its changelist is submitted, and openable exactly when its
\* changelist is submitted and its operation does not delete the file; a
\* shelved file is marked diffable exactly when its operation does not create
\* the file, and openable exactly when its operation does not delete it.
C14_ButtonsFollowState ==
    rnode # <<>> =>
        LET context == rnode[1].contextValue
            operation == rinput.file.operation
            creates == operation \in {"add", "branch", "move/add"}
            deletes == operation \in {"delete", "move/delete"}
        IN IF rinput.shelved
           THEN /\ MarkedDiffable(context) <=> ~creates
                /\ MarkedOpenable(context) <=> ~deletes
           ELSE /\ MarkedDiffable(context) <=> ~rinput.isPending
                /\ MarkedOpenable(context) <=> (~rinput.isPending /\ ~deletes)
                /\ MarkedOpenable(context) => MarkedDiffable(context)

\* The item of an edited file of a pending changelist: neither mark.
C14_Witness ==
    /\ rnode # <<>>
    /\ ~rinput.shelved
    /\ rinput.isPending
    /\ rinput.file.operation = "edit"
    /\ rnode[1].contextValue = "fileResult"

\* C15: every p4.sync call of 'Sync this revision' has exactly one file spec,
\* current.file#current.revision of the ChangeDetails of the pick, and 'File
\* synced' is shown only right after a sync call has resolved.
C15_SyncThisRevision ==
    /\ [](\A j \in 1..Len(ylog) :
            ylog[j] = "message" => (j > 1 /\ ylog[j - 1] = "resolved"))
    /\ [][ysynced' # ysynced =>
            /\ fdetails # <<>>
            /\ fdetails[1].current # <<>>
            /\ ysynced' =
                 Append(ysynced,
                        <<fdetails[1].current[1].file \o "#"
                          \o fdetails[1].current[1].revision>>)]_vars

\* Revision #1 of three was synced from its pick, and then a sync failed.
C15_Witness ==
    /\ ylog = <<"sync", "resolved", "message", "sync", "rejected">>
    /\ ysynced = <<<<"//depot/a#1">>, <<"//depot/a#1">>>>
    /\ fdetails # <<>>
    /\ fdetails[1].latest # <<>>
    /\ fdetails[1].latest[1].revision = "3"

\* The numbers of the trees among `children` that satisfy pinned = p.
TreesPinned(children, p) ==
    {children[i].id : i \in {j \in 1..Len(children) : children[j].pinned = p}}

\* C16: addResults disposes exactly the result trees that were unpinned,
\* leaves every pinned tree in place, and adds the new tree unpinned: right
\* after it the new tree is the only unpinned result tree.
C16_OnlyNewTreeUnpinned ==
    [][AddResults =>
        /\ aremoved' = TreesPinned(achildren, FALSE)
        /\ SubSeq(achildren', 1, Len(achildren') - 1) =
                SelectSeq(achildren, LAMBDA child : child.pinned)
        /\ achildren'[Len(achildren')].id = anext'
        /\ ~achildren'[Len(achildren')].single
        /\ TreesPinned(achildren', FALSE) = {anext'}]_vars

\* The third search completed: tree 1 was pinned and stayed, tree 2 was not
\* and was disposed.
C16_Witness ==
    /\ aremoved = {2}
    /\ Len(achildren) = 2
    /\ achildren[1].id = 1
    /\ achildren[1].pinned
    /\ ~achildren[1].single
    /\ achildren[2].id = 3
    /\ ~achildren[2].pinned

\* The revision of the URI is a number.
RevIsNumber(rev) == rev \in {ToString(n) : n \in 0..(MaxRevs + 1)}

\* C17: getChangeDetails uses the revision of the URI when that is a number
\* and otherwise the have revision; it asks for the file history only with a
\* revision; when p4.have answers nothing and the URI has no number it shows
\* an error and throws without asking for the file history; when the file
\* history is empty it shows 'No file history found' and throws; in both
\* cases no ChangeDetails is returned.
C17_RevisionSelected ==
    /\ [](fuseRev # Undefined =>
            IF RevIsNumber(furiRev) THEN fuseRev = furiRev
            ELSE fhaveFile # <<>> /\ fuseRev = fhaveFile[1].revision)
    /\ []((fpc = "filelog" \/ fdetails # <<>>) => fuseRev # Undefined)
    /\ [][HaveReturns /\ ~RevIsNumber(furiRev) /\ fserver.have = 0 =>
            /\ ferrors' = Append(ferrors,
                       "Unable to get file details without a revision")
            /\ fpc' = "failed"
            /\ fqueries' = <<"have">>
            /\ fdetails' = <<>>]_vars
    /\ [][FileLogReturns /\ fserver.head = 0 =>
            /\ ferrors' = Append(ferrors, "No file history found")
            /\ fpc' = "failed"
            /\ fdetails' = <<>>]_vars

\* A label, and the file is not synced: no revision.
C17_Witness ==
    /\ furiRev = "@label"
    /\ fhaveFile = <<>>
    /\ fpc = "failed"
    /\ ferrors = <<"Unable to get file details without a revision">>
    /\ fqueries = <<"have">>
    /\ fdetails = <<>>

\* The items of the file quick pick that is shown.
FilePickItems == fileQuickPick(fdetails[1])

\* The items of the file quick pick with that label.
FileItems(label) ==
    SelectSeq(FilePickItems, LAMBDA item : item.label = label)

\* C18: the file quick pick always has one 'Previous revision' and one 'Next
\* revision' entry; each has an action exactly when the file history of the
\* ChangeDetails has an older (newer) revision than the current one, and
\* otherwise the description 'n/a' and no action; 'Diff against previous
\* revision' is offered exactly when there is an older revision and 'Diff
\* against latest revision' exactly when the current one is not the latest.
C18_NavigationEntries ==
    (fpc = "shown" /\ fkind = "file") =>
        LET d == fdetails[1]
            older == d.currentIndex + 1 < Len(d.all)
            newer == d.currentIndex > 0
            prev == FileItems("$(arrow-small-left) Previous revision")
            next == FileItems("$(arrow-small-right) Next revision")
        IN /\ Len(prev) = 1
           /\ Len(next) = 1
           /\ prev[1].action <=> older
           /\ next[1].action <=> newer
           /\ ~older => prev[1].text = <<"n/a">>
           /\ ~newer => next[1].text = <<"n/a">>
           /\ older => prev[1].text = <<d.all[d.currentIndex + 2].revision>>
           /\ newer => next[1].text = <<d.all[d.currentIndex].revision>>
           /\ Len(FileItems("$(diff) Diff against previous revision")) =
                (IF older THEN 1 ELSE 0)
           /\ Len(FileItems("$(diff) Diff against latest revision")) =
                (IF newer THEN 1 ELSE 0)

\* The pick of the oldest of three revisions: no previous revision, a next
\* one, and a diff against the latest.
C18_Witness ==
    /\ fpc = "shown"
    /\ fkind = "file"
    /\ Len(fdetails[1].all) = 3
    /\ fdetails[1].currentIndex = 2
    /\ FileItems("$(arrow-small-left) Previous revision")[1].text = <<"n/a">>
    /\ FileItems("$(arrow-small-right) Next revision")[1].action

\* A shelved describe call of the tree ends, and it is the first call of the
\* tree that fails.
FirstShelvedFailure ==
    /\ ~tfailed
    /\ tfailed'
    /\ \E c \in tcalls : c.kind = "shelved" /\ tcalls' = tcalls \ {c}

\* C19: when the shelved describe call of a search-result tree fails, no
\* error is shown or thrown, and the changelist items of the tree and their
\* affected-file children stay as they were.
C19_ShelvedFailureSwallowed ==
    [][FirstShelvedFailure =>
        /\ terrors' = terrors
        /\ tchildren' = tchildren
        /\ tresults' = tresults]_vars

\* The shelved describe of a tree whose changelist items have their
\* affected files has failed, and no error was raised.
C19_Witness ==
    /\ tfailed
    /\ terrors = 0
    /\ tcalls = {}
    /\ tchildren # <<>>
    /\ \A i \in 1..Len(tchildren) :
        /\ tchildren[i].isPending
        /\ tchildren[i].children # <<>>
        /\ \A j \in 1..Len(tchildren[i].children) :
            ~startsWithShelvedFiles(tchildren[i].children[j].label)

\* The positions of the pick whose item has that label.
Positions(label) == {i \in 1..Len(PickItems) : PickItems[i].label = label}

\* The pick has one header of that label when `present`, and none otherwise;
\* the header has no action and announces Len(list), and the entries of that
\* kind are the Len(list) items that follow it: one for every element of
\* list, in order, each with an action.
CountedEntries(header, entry, list, present) ==
    /\ Cardinality(Positions(header)) = (IF present THEN 1 ELSE 0)
    /\ ~present => Positions(entry) = {}
    /\ \A i \in Positions(header) :
        /\ PickItems[i] = Item(header, <<Len(list)>>, FALSE)
        /\ Positions(entry) = (i + 1)..(i + Len(list))
        /\ \A j \in 1..Len(list) :
            PickItems[i + j] = Item(entry, <<list[j]>>, TRUE)

\* C20: in the items of a returned changelist quick pick 'Jobs fixed: N' is
\* followed by the N jobs of the described change, 'Changed files: N' by its
\* N affected files and 'Shelved files: N' by the N shelved files of its
\* shelved description, each in the order of the description; the headers
\* have no action and every job, file and shelved-file entry has one.
C20_HeadersCountEntries ==
    cpc = "shown" =>
        /\ CountedEntries("Jobs fixed: ", "$(tools) ",
                          cchange[1].fixedJobs, TRUE)
        /\ CountedEntries("Changed files: ", "file",
                          cchange[1].affectedFiles, TRUE)
        /\ CountedEntries("Shelved files: ", "shelved file",
                          IF cshelved = <<>> THEN <<>>
                          ELSE cshelved[1].shelvedFiles,
                          HasItem("Shelved files: "))

\* A pick of a pending change with two jobs, two files and a shelved file.
C20_Witness ==
    /\ cpc = "shown"
    /\ Len(cchange[1].fixedJobs) = 2
    /\ cchange[1].fixedJobs[1] # cchange[1].fixedJobs[2]
    /\ Len(cchange[1].affectedFiles) = 2
    /\ cshelved # <<>>
    /\ Len(cshelved[1].shelvedFiles) = 1
    /\ HasItem("Shelved files: ")
    /\ Cardinality(Positions("$(tools) ")) = 2

\* C21: whatever the order in which the describe calls, the shelved describe
\* calls and the searches of refresh() complete, every changelist item of a
\* result tree has at most one 'Shelved Files' group among its children.
C21_OneShelvedGroup ==
    \A i \in 1..Len(tchildren) : Len(ShelvedGroups(tchildren[i])) <= 1

\* An item already has its group while another shelved describe call that
\* answers shelved files for the same changelist is still in flight, after a
\* refresh.
C21_Witness ==
    /\ tgen >= 2
    /\ \E i \in 1..Len(tchildren), c \in tcalls :
        /\ Len(ShelvedGroups(tchildren[i])) = 1
        /\ c.kind = "shelved"
        /\ \E k \in 1..Len(c.resp) :
            /\ c.resp[k].chnum = tchildren[i].chnum
            /\ hasShelvedFiles(c.resp[k])

\* The result tree that addResults added last, as a sequence of at most one.
NewestSearchTree ==
    SelectSeq(achildren,
              LAMBDA tree : /\ ~tree.single
                            /\ \A k \in 1..Len(achildren) :
                                  \/ achildren[k].single
                                  \/ achildren[k].id <= tree.id)

\* C22: once every search that was started has completed, none with an
\* error, the unpinned result tree that addResults added last has the
\* filters of the search that was started last.
C22_LatestSearchShown ==
    (asearches = {} /\ aerrors = 0) =>
        \A i \in 1..Len(NewestSearchTree) :
            ~NewestSearchTree[i].pinned =>
                NewestSearchTree[i].filters = alast

\* C25: the contextValue of every result tree is 'results-pinned' when the
\* tree is pinned and 'results-unpinned' when it is not.
C25_ContextValueFollowsPin ==
    \A i \in 1..Len(achildren) :
        achildren[i].contextValue = resultsContext(achildren[i].pinned)

\* C26: the 'Search Now' item shows 'Auto: on' and has the contextValue
\* 'searchNow-auto' when autoRefresh is true, and shows 'Auto: off' and has
\* 'searchNow-manual' when it is false.
C26_SearchNowConsistent ==
    /\ alabel = makeLabel(aauto)
    /\ acontext = searchNowContext(aauto)

\* The label of the 'Search Now' item follows the auto-refresh flag.
SearchNowLabelConsistent == alabel = makeLabel(aauto)

\* A search is started by no other step than the run command, a filter
\* change with auto refresh on, and the enabling of auto refresh; no filter
\* change with auto refresh off and no disabling starts one.
OnlyAutoOrRunStarts ==
    /\ (astarted' # astarted) =>
            \/ RunSearchCommand
            \/ EnableAutoRefresh
            \/ ChangeFilters /\ aauto
    /\ (ChangeFilters /\ ~aauto) =>
            UNCHANGED <<astarted, asearches, aerrors>>
    /\ DisableAutoRefresh => UNCHANGED <<astarted, asearches, aerrors>>

\* C27 as stated: every filter change with auto refresh on and every
\* enabling of auto refresh starts a search, and nothing else but the run
\* command does.
C27_SearchStartedIffAuto ==
    [][/\ OnlyAutoOrRunStarts
       /\ ((ChangeFilters /\ aauto) \/ EnableAutoRefresh) =>
            astarted' = astarted + 1]_vars

\* C27: executeSearch is called automatically exactly when the filters
\* change or the 'Search Now' item changes while auto refresh is on; it
\* starts a search of the current filters when a context is selected, and
\* otherwise shows an error and starts none.
C27_ExecuteSearchIffAuto ==
    [][/\ OnlyAutoOrRunStarts
       /\ ((ChangeFilters /\ aauto) \/ EnableAutoRefresh) =>
            IF aclient = <<>>
            THEN /\ aerrors' = aerrors + 1
                 /\ UNCHANGED <<astarted, asearches>>
            ELSE /\ astarted' = astarted + 1
                 /\ asearches' =
                      asearches \cup {Search(astarted', aclient[1], afilters')}
                 /\ UNCHANGED aerrors]_vars

\* Auto refresh was enabled without a context, which showed the error; with
\* a context selected a search started when the filters changed.
C27_Witness ==
    /\ aauto
    /\ aerrors = 1
    /\ aclient # <<>>
    /\ afilters = "user:ann"
    /\ asearches = {Search(1, aclient[1], "user:ann")}

\* The result tree of that number is among `children`.
HasTree(children, id) == \E k \in 1..Len(children) : children[k].id = id

\* C28: a focused-changelist tree is pinned when it is added; while it is
\* pinned only its deletion removes it from Results, whatever searches
\* complete; once unpinned, the next search that completes removes it.
C28_FocusedTreeStays ==
    [][/\ AddSingleResult =>
            /\ achildren'[Len(achildren')].single
            /\ achildren'[Len(achildren')].pinned
            /\ SubSeq(achildren', 1, Len(achildren)) = achildren
       /\ \A i \in 1..Len(achildren) :
            achildren[i].single =>
                /\ ~HasTree(achildren', achildren[i].id) =>
                        \/ DeleteTree
                        \/ AddResults /\ ~achildren[i].pinned
                /\ (AddResults /\ ~achildren[i].pinned) =>
                        ~HasTree(achildren', achildren[i].id)]_vars

\* The focused-changelist tree 1 is still there, pinned, after two searches
\* completed: the second disposed the tree of the first.
C28_Witness ==
    /\ Len(achildren) = 2
    /\ achildren[1].id = 1
    /\ achildren[1].single
    /\ achildren[1].pinned
    /\ achildren[2].id = 3
    /\ aremoved = {2}

\* The number of a revision.
RevNo(rev) == CHOOSE n \in 1..MaxDiffRevs : ToString(n) = rev

\* C24: the diff that the pick of a revision of the diff chooser opens is of
\* the picked revision and the current one, with the older of the two on the
\* left and the newer on the right.
C24_OlderOnTheLeft ==
    ddiff # <<>> =>
        /\ {ddiff[1].diff.left, ddiff[1].diff.right}
             = {ddiff[1].revision, dchanges.current[1].revision}
        /\ RevNo(ddiff[1].diff.left) <= RevNo(ddiff[1].diff.right)

\* With the newer revisions shown the older revision is on the left.
OlderOnTheLeftWithNewer ==
    (ddiff # <<>> /\ dnewer) =>
        RevNo(ddiff[1].diff.left) <= RevNo(ddiff[1].diff.right)

\* C23: once every describe call of a result tree has completed, none with
\* an error, and no refresh is under way, the affected files of every
\* changelist item were added from the answer of the describe call that the
\* latest refresh (or the construction) issued.
C23_DetailsOfLatestRefresh ==
    (tpc = "built" /\ tcalls = {} /\ ~tfailed) =>
        \A i \in 1..Len(tchildren) : tchildren[i].from = tgen

\* C29: p4 resolve is called only in answer to the warning of an unshelve
\* that succeeded with at least one warning and had a target changelist,
\* through the button 'Resolve changelist', and it is called on that target
\* changelist; the warning of an unshelve into the default changelist has no
\* button, and no resolve follows it.
C29_ResolveOnlyOnTarget ==
    /\ [][uresolved' # uresolved =>
            /\ upc = "prompting"
            /\ uresult = "ok"
            /\ uwarnings > 0
            /\ uoptions.toChnum # Undefined
            /\ ubuttons = <<"Resolve changelist">>
            /\ uresolved' = Append(uresolved, uoptions.toChnum)
            /\ upc' = "resolving"]_vars
    /\ []((upc = "prompting" /\ uoptions.toChnum = Undefined) =>
            ubuttons = <<>>)
    /\ [](upc = "resolving" => uoptions.toChnum # Undefined)

\* An unshelve into the default changelist warned and the warning was
\* dismissed without a resolve, after an unshelve into changelist 2 was
\* resolved there.
C29_Witness ==
    /\ upc = "idle"
    /\ uresolved = <<"2">>
    /\ uoptions.toChnum = Undefined
    /\ uresult = "ok"
    /\ uwarnings > 0
    /\ ulog = <<"unshelve", "message", "refresh", "prompt", "resolve",
                "unshelve", "message", "refresh", "prompt">>

\* The describe call has answered with no change and provideActions threw.
C11_Witness ==
    /\ cpc = "failed"
    /\ cchange = <<>>
    /\ cerrors = <<"Unable to find change details">>
    /\ cdescribes = <<[shelved |-> FALSE, chnums |-> <<cchnum>>]>>
    /\ cpick = <<>>
====
